---- MODULE Spec2Model ----
(***************************************************************************)
(* A model of the MALintent fuzzing loop: the device driver's intent       *)
(* dispatch (AdbDevice::run_am_start, AdbExecutor::run_target) and the     *)
(* coverage observer's socket protocol (SocketCoverageObserver::pre_exec,  *)
(* post_exec), the intent value with its serialization and hash            *)
(* (IntentInput), the eight mutators, the executor's side-channel          *)
(* provisioning and the seed generator.                                    *)
(*                                                                         *)
(* It also covers the program's entry point (main), the restart loop       *)
(* (AdbDevice::restart_app) and the launch of the target with its watchdog *)
(* thread (AdbDevice::start_app), the stop of the target                  *)
(* (AdbDevice::stop_app) and the seeds of fuzz mode.                       *)
(*                                                                         *)
(* These specifications share the variables:                               *)
(*   SpecDispatch  one run_target call after another; the device answers   *)
(*                 every `am` attempt with any exit status, any stderr and *)
(*                 with or without the wall-clock timeout firing.          *)
(*   Spec          the observer inside the engine's loop                   *)
(*                 pre_exec -> run_target -> post_exec, with the agent's   *)
(*                 side of the TCP stream as the environment.              *)
(*   SpecMutate    chains of mutator calls on an input of the corpus.      *)
(*   SpecRunTarget the part of run_target before run_am_start: the shell   *)
(*                 command and the provisioning of every URI's payload.    *)
(*   SpecGenerate  IntentGenerator::generate called number_of_intents      *)
(*                 times on one template.                                  *)
(*   SpecMain      main from the support gate to the engine's loop, in     *)
(*                 either mode and with or without native tracing.         *)
(*   SpecRestartApp restart_app's five passes, each step of a pass able    *)
(*                 to fail.                                                *)
(*   SpecStartApp  start_app with its reader and its watchdog thread and   *)
(*                 the passage of time; SpecStartAppFair adds that a       *)
(*                 runnable thread eventually runs.                        *)
(*   SpecStopApp   one call of stop_app, command by command, each command  *)
(*                 able to fail or to panic.                               *)
(*   SpecFuzz      fuzz mode from the template files through the gate, the *)
(*                 seeds and the stage's mutators to shell_command.        *)
(*   SpecLoop      one execution of the engine's loop with run_am_start's  *)
(*                 attempts inside it.                                     *)
(* Each keeps the other's variables at their initial values.               *)
(***************************************************************************)
EXTENDS Integers, Sequences, FiniteSets, TLC

VARIABLES
    \* ---- AdbExecutor::run_target / AdbDevice::run_am_start
    d_pc,         \* "idle" | "am" | "am_returned" | "returned" | "panic"
    d_i,          \* the loop variable i of run_am_start
    att,          \* one record per attempt of this dispatch: its class and
                  \* the device-level calls it made, in order
    last,         \* what the device answered to the latest attempt
    am_result,    \* run_am_start's return: "none" | "Ok" | "ErrTimedOut" | "ErrOther"
    exit_kind     \* run_target's return: "none" | "Ok" | "Timeout" (always inside Ok(..))

dvars == <<d_pc, d_i, att, last, am_result, exit_kind>>

VARIABLES
    \* ---- SocketCoverageObserver and the engine's loop around it
    o_pc,                    \* "pre" | "exec" | "post" | "failed" | "panic"
    iter,                    \* executions completed (post_exec calls returned)
    receiver_type,           \* templates[0].receiver_type
    enable_synchronization,  \* the observer's fields
    trace_native,
    use_coverage,
    base_observer,           \* the bitmap of base_observer
    overall_coverage,
    last_overall_coverage,
    overall_file,            \* the lines of overall_coverage_file: their counts
    sent,                    \* the opcodes written to the current session
    rx,                      \* bytes of the agent on the current session,
                             \* arrived or still to arrive, not yet read
    conn_up,                 \* the agent's end of the session is alive
    pre_i,                   \* the loop variable i of pre_exec
    patt,                    \* one record per attempt of this pre_exec
    pre_result,              \* pre_exec's return: "none" | "Ok" | "Err"
    buffer,                  \* post_exec's local buffer after read_exact
    post_read                \* the latest read_exact: "none" | "short" | "full"

ovars == <<o_pc, iter, receiver_type, enable_synchronization, trace_native,
           use_coverage, base_observer, overall_coverage, last_overall_coverage,
           overall_file, sent, rx, conn_up, pre_i, patt, pre_result, buffer,
           post_read>>

VARIABLES
    \* ---- the mutational stage: one corpus entry under the scheduled mutator
    m_input,      \* the IntentInput the mutators work on (&mut input)
    m_before,     \* its value before the latest mutate call
    m_mutator,    \* the name() of the latest mutator called, "none" at first
    m_result,     \* its MutationResult: "none" | "Mutated" | "Skipped"
    m_chain       \* mutate calls made so far

mvars == <<m_input, m_before, m_mutator, m_result, m_chain>>

VARIABLES
    \* ---- AdbExecutor::run_target up to its call of run_am_start
    r_pc,           \* "idle" | "provision" | "dispatch" | "am" | "panic"
    r_input,        \* the input of the call
    shell_command,  \* the local shell_command
    r_todo,         \* the (id, uri) pairs the for_each has still to visit
    device_cmds     \* the commands handed to `adb shell`, in order

rvars == <<r_pc, r_input, shell_command, r_todo, device_cmds>>

VARIABLES
    \* ---- IntentGenerator
    templates,    \* the loaded templates
    read_count,   \* the generator's read_count
    generated     \* the inputs generate has returned, in order

gvars == <<templates, read_count, generated>>

\* The variables of the intent value's life: minted, mutated, run.
ivars == <<mvars, rvars, gvars>>

VARIABLES
    \* ---- main
    main_pc,      \* "start" | "mode" | "re_run" | "fuzz" | "returned" | "panic"
    args,         \* the CommandLineArgs that steer main
    main_calls    \* the calls main has made on the device and the engine,
                  \* in order

mainvars == <<main_pc, args, main_calls>>

VARIABLES
    \* ---- AdbDevice::restart_app
    ra_pc,        \* "loop" | "returned" | "panic"
    ra_i,         \* the loop variable i
    ra_att        \* one record per pass of the loop: the calls it made and
                  \* how each ended

restartvars == <<ra_pc, ra_i, ra_att>>

VARIABLES
    \* ---- AdbDevice::start_app: the main thread
    sa_pc,          \* "explicit" | "pidof" | "logcat" | "read" | "update" |
                    \* "update_locked" | "signal" | "signal_locked" | "join" |
                    \* "returned" | "panic"
    sa_item,        \* the latest item of reader.next()
    sa_result,      \* start_app's return: "none" | "Ok" | "Err"
    sa_log,         \* the commands run on the device, in order
    main_activity,  \* the local main_activity of start_app_explicit
    pid,            \* the local pid
    lines_read,     \* items taken from the reader
    \* ---- what the two threads share
    logcat_child,   \* "none" | "running" | "killed" | "exited"
    last_update,    \* the Option<Instant> in the mutex: None, or Some(age)
                    \* with the age of the Instant in seconds
    mutex,          \* who holds the lock: "free" | "main" | "watchdog"
    \* ---- the watchdog thread
    wd_pc,          \* "absent" | "poll" | "check" | "sleep" | "kill" | "done"
    wd_slept,       \* seconds of the current sleep that have passed
    wd_saw,         \* what its latest match found in last_update
    gap_over        \* an item was read more than 20 s after the one before

startvars == <<sa_pc, sa_item, sa_result, sa_log, main_activity, pid, lines_read,
               logcat_child, last_update, mutex, wd_pc, wd_slept, wd_saw,
               gap_over>>

VARIABLES
    \* ---- AdbDevice::stop_app
    st_pc,        \* "loop" | "returned" | "panic"
    st_i,         \* passes of the loop begun
    st_cmds,      \* the commands run on the device, in order, each with its
                  \* exit status
    st_result     \* stop_app's return: "none" | "Ok" | "Err"

stopvars == <<st_pc, st_i, st_cmds, st_result>>

\* The variables of the program's start and of the app's life cycle.
lvars == <<mainvars, restartvars, startvars, stopvars>>

vars == <<dvars, ovars, ivars, lvars>>

----------------------------------------------------------------------------
(* Bounds of the model *)

\* Executions of the loop that are followed.
MaxIter == 2

\* The length of the coverage map (COVERAGE_MAP_SIZE = 1024 * 1024 in the
\* program), scaled down.
MapLen == 2

\* The most bytes of the agent that stay unread on a session after a
\* post_exec (the agent delays no more than this).
MaxUnread == 1

----------------------------------------------------------------------------
(* Program constants *)

\* `for i in 0..5` of pre_exec
PRE_EXEC_RETRIES == 5

\* b'd', the agent's answer to the reset opcode
ACK == 100

\* `for i in 0..5` of run_am_start
AM_RETRIES == 5

----------------------------------------------------------------------------
(* AdbDevice::run_am_start *)

\* What the classification reads of stderr: the five substrings the code
\* searches for, and "other" for any other text. stderr.is_empty() is {}.
StderrFragments ==
    {"delivered", "activity_class", "does_not_exist", "oor", "brought_to_front", "other"}

\* subprocess::ExitStatus as far as the code tells its values apart.
ExitStatuses == {"Exited0", "ExitedNonZero", "Signaled"}

NoAnswer == [timed_out |-> FALSE, exit |-> "Exited0", stderr |-> {}]

\* Lines 137-158: the returns inside the loop body. "retry" is falling
\* through to the restart check and the sleep.
AttemptVerdict_ExitFirst(exit, stderr) ==
    IF exit = "Exited0"
    THEN IF stderr = {} \/ "delivered" \in stderr THEN "Ok"
         ELSE IF {"activity_class", "does_not_exist"} \subseteq stderr THEN "ErrTimedOut"
         ELSE "retry"
    ELSE "retry"

AttemptVerdict(exit, stderr) ==
    IF "delivered" \in stderr THEN "Ok"
    ELSE IF exit = "Exited0"
         THEN IF stderr = {} THEN "Ok"
              ELSE IF "activity_class" \in stderr /\ "does_not_exist" \in stderr
                   THEN "ErrTimedOut"
                   ELSE "retry"
         ELSE "retry"

\* The local `restart`: set by the timeout (line 108) or by either
\* resource marker in stderr (lines 161-167).
RestartWanted(timed_out, stderr) ==
    timed_out \/ "oor" \in stderr \/ "brought_to_front" \in stderr

\* Line 173: `if i > 1 { self.restart_device(); }`
RestartDeviceFirst_AfterFirst(i) == i > 0

RestartDeviceFirst(i) == i > 1

\* The class of an attempt, in the words of the dispatch classification.
AttemptClass(timed_out, exit, stderr) ==
    CASE AttemptVerdict(exit, stderr) = "Ok" -> "Success"
      [] AttemptVerdict(exit, stderr) = "ErrTimedOut" -> "ActivityMissing"
      [] AttemptVerdict(exit, stderr) = "retry" /\ RestartWanted(timed_out, stderr)
           -> "ResourceExhaustion"
      [] OTHER -> "Failure"

\* The device-level calls of one loop body, in program order.
AttemptCalls(i, timed_out, exit, stderr) ==
    <<"am">> \o
    (IF AttemptVerdict(exit, stderr) = "retry" /\ RestartWanted(timed_out, stderr)
     THEN (IF RestartDeviceFirst(i) THEN <<"restart_device">> ELSE <<>>)
          \o <<"restart_app">>
     ELSE <<>>)

\* AdbExecutor::run_target, up to the call of run_am_start.
RunTargetCall ==
    /\ d_pc \in {"idle", "returned"}
    /\ d_pc' = "am"
    /\ d_i' = 0
    /\ att' = <<>>
    /\ last' = NoAnswer
    /\ am_result' = "none"
    /\ exit_kind' = "none"
    /\ UNCHANGED <<ovars, ivars, lvars>>

\* One pass of the loop body of run_am_start. restart_app returns or panics
\* (its own five attempts, line 362); a failure of the adb transport itself
\* (Popen::create, restart_device's expect) is not modelled.
RunAmStartAttempt ==
    /\ d_pc = "am"
    /\ d_i < AM_RETRIES
    /\ \E timed_out \in BOOLEAN, exit \in ExitStatuses,
          stderr \in SUBSET StderrFragments, app_restarts \in BOOLEAN :
         LET v     == AttemptVerdict(exit, stderr)
             calls == AttemptCalls(d_i, timed_out, exit, stderr)
             panic == ~app_restarts
         IN  /\ panic => calls[Len(calls)] = "restart_app"
             /\ last' = [timed_out |-> timed_out, exit |-> exit, stderr |-> stderr]
             /\ att' = Append(att, [cls |-> AttemptClass(timed_out, exit, stderr),
                                    calls |-> calls])
             /\ IF v # "retry"
                THEN /\ am_result' = v
                     /\ d_pc' = "am_returned"
                     /\ d_i' = d_i
                ELSE IF panic
                THEN /\ am_result' = "none"
                     /\ d_pc' = "panic"
                     /\ d_i' = d_i
                ELSE /\ d_i' = d_i + 1
                     /\ IF d_i + 1 = AM_RETRIES
                        THEN am_result' = "ErrOther" /\ d_pc' = "am_returned"
                        ELSE am_result' = "none" /\ d_pc' = "am"
    /\ UNCHANGED exit_kind
    /\ UNCHANGED <<ovars, ivars, lvars>>

\* Lines 102-105 of adb_executor.rs: the match on run_am_start's result.
ExitKindOf_Lenient(result) == IF result = "ErrOther" THEN "Timeout" ELSE "Ok"

ExitKindOf_Crashing(result) ==
    IF result = "Ok" THEN "Ok" ELSE IF result = "ErrOther" THEN "Crash" ELSE "Timeout"

ExitKindOf(result) == IF result = "Ok" THEN "Ok" ELSE "Timeout"

\* main.rs, line 227: the objective. CrashFeedback finds an execution
\* interesting when its exit kind is ExitKind::Crash.
CrashFeedback(kind) == kind = "Crash"

RunTargetReturn ==
    /\ d_pc = "am_returned"
    /\ exit_kind' = ExitKindOf(am_result)
    /\ d_pc' = "returned"
    /\ UNCHANGED <<d_i, att, last, am_result>>
    /\ UNCHANGED <<ovars, ivars, lvars>>

----------------------------------------------------------------------------
(* SocketCoverageObserver *)

\* The values a byte of the stream or of a map takes in the model: zero, a
\* nonzero hit count, and the byte b'd' (a hit count of 100 as well).
Bytes == {0, 1, ACK}

MapIndexes == 1..MapLen

Maps == [MapIndexes -> Bytes]

ZeroMap == [x \in MapIndexes |-> 0]

\* IntentGenerator::enable_synchronization
EnableSynchronization(rt) == rt = "Activity"

\* Lines 81-83 and 127-133: the two bytes written first on a session.
SyncOpcode_AlwaysOn(enable) == "ss"

SyncOpcode(enable) == IF enable THEN "ss" ELSE "se"

\* The state SocketCoverageObserver::new leaves: the session open with its
\* synchronization opcode written, the file holding "0: 0", the maps zero.
ObserverConstructed(rt, tn, uc) ==
    /\ o_pc = "pre"
    /\ iter = 0
    /\ receiver_type = rt
    /\ enable_synchronization = EnableSynchronization(rt)
    /\ trace_native = tn
    /\ use_coverage = uc
    /\ base_observer = ZeroMap
    /\ overall_coverage = ZeroMap
    /\ last_overall_coverage = 0
    /\ overall_file = <<0>>
    /\ sent = <<SyncOpcode(EnableSynchronization(rt))>>
    /\ rx = <<>>
    /\ conn_up = TRUE
    /\ pre_i = 0
    /\ patt = <<>>
    /\ pre_result = "none"
    /\ buffer = ZeroMap
    /\ post_read = "none"

\* reset_coverage, lines 139-148: what it writes when every write succeeds.
ResetWrites(tn) == (IF tn THEN <<"ts">> ELSE <<>>) \o <<"r">>

\* reset_coverage, line 151: `buffer[0] != b'd'` is the error.
ReplyAccepted_AnyByte(byte) == TRUE

ReplyAccepted(byte) == byte = ACK

\* pre_exec, line 209: `if i > 1 { restart_device }`
PreExecRestartsDevice(i) == i > 1

\* pre_exec, lines 205-217: the calls of the error branch, in program order
\* (the sleeps are left out).
RecoveryCalls_ReopenFirst(i, tn) ==
    (IF tn THEN <<"report_native_crash">> ELSE <<>>)
    \o <<"init">>
    \o (IF PreExecRestartsDevice(i) THEN <<"restart_device">> ELSE <<>>)
    \o <<"restart_app">>

RecoveryCalls_AlwaysReports(i, tn) ==
    <<"report_native_crash">>
    \o (IF PreExecRestartsDevice(i) THEN <<"restart_device">> ELSE <<>>)
    \o <<"restart_app", "init">>

RecoveryCalls(i, tn) ==
    (IF tn THEN <<"report_native_crash">> ELSE <<>>)
    \o (IF PreExecRestartsDevice(i) THEN <<"restart_device">> ELSE <<>>)
    \o <<"restart_app", "init">>

\* The calls made when the call at position `stop` panics.
UpTo(calls, stop) == SubSeq(calls, 1, stop)

\* One pass of the loop body of pre_exec: reset_coverage, and on its error
\* the recovery. The agent answers the reset with b'd', with another byte,
\* or not at all; a byte that is late counts as none (the read times out).
\* An attempt's outcome is "d" (the byte read is b'd'), "no_d" (the read
\* failed, ended, or gave another byte) or "write_err" (a write failed).
\* restart_app may panic (adb_device.rs:362) and so may init (the expect on
\* connect).
PreExecAttempt ==
    /\ o_pc = "pre"
    /\ iter < MaxIter
    /\ pre_i < PRE_EXEC_RETRIES
    /\ \E wr_ok \in BOOLEAN, reply \in {<<>>, <<ACK>>, <<0>>}, arrives \in BOOLEAN,
          rec \in {"ok", "restart_app", "init"} :
         LET stream  == rx \o reply
             got     == wr_ok /\ arrives /\ stream # <<>>
             ok      == got /\ ReplyAccepted(Head(stream))
             outcome == IF ~wr_ok THEN "write_err"
                        ELSE IF got /\ Head(stream) = ACK THEN "d" ELSE "no_d"
             written == IF wr_ok THEN ResetWrites(trace_native) ELSE <<>>
             calls   == RecoveryCalls(pre_i, trace_native)
             done    == IF rec = "ok" THEN calls
                        ELSE UpTo(calls, CHOOSE k \in 1..Len(calls) : calls[k] = rec)
         IN  /\ conn_up => wr_ok
             /\ ~conn_up => reply = <<>>
             /\ (~wr_ok \/ stream = <<>>) => ~arrives
             /\ ok => rec = "ok"
             /\ IF ok
                THEN /\ patt' = Append(patt, [at |-> Len(sent), outcome |-> outcome,
                                              calls |-> written])
                     /\ sent' = sent \o written
                     /\ rx' = Tail(stream)
                     /\ base_observer' = ZeroMap
                     /\ pre_result' = "Ok"
                     /\ o_pc' = "exec"
                     /\ UNCHANGED <<pre_i, conn_up>>
                ELSE /\ patt' = Append(patt, [at |-> Len(sent), outcome |-> outcome,
                                              calls |-> written \o done])
                     /\ IF rec = "ok"
                        THEN /\ sent' = <<SyncOpcode(enable_synchronization)>>
                             /\ rx' = <<>>
                             /\ conn_up' = TRUE
                             /\ pre_i' = pre_i + 1
                             /\ IF pre_i + 1 = PRE_EXEC_RETRIES
                                THEN pre_result' = "Err" /\ o_pc' = "failed"
                                ELSE pre_result' = "none" /\ o_pc' = "pre"
                        ELSE /\ o_pc' = "panic"
                             /\ UNCHANGED <<sent, rx, conn_up, pre_i, pre_result>>
                     /\ UNCHANGED base_observer
    /\ UNCHANGED <<iter, receiver_type, enable_synchronization, trace_native,
                   use_coverage, overall_coverage, last_overall_coverage,
                   overall_file, buffer, post_read>>
    /\ UNCHANGED <<dvars, ivars, lvars>>

\* The engine calls run_target between pre_exec and post_exec. Of its
\* effects the observer sees one: the app, and with it the agent's end of
\* the session, may be gone (a crash, or run_am_start's restart_app).
ExecuteTarget ==
    /\ o_pc = "exec"
    /\ o_pc' = "post"
    /\ conn_up' \in {conn_up, FALSE}
    /\ patt' = <<>>
    /\ pre_result' = "none"
    /\ post_read' = "none"
    /\ buffer' = ZeroMap
    /\ UNCHANGED <<iter, receiver_type, enable_synchronization, trace_native,
                   use_coverage, base_observer, overall_coverage,
                   last_overall_coverage, overall_file, sent, rx, pre_i>>
    /\ UNCHANGED <<dvars, ivars, lvars>>

\* HitcountsMapObserver::post_exec of the base observer: every byte becomes
\* its hit-count class.
HitcountClass(b) ==
    IF b <= 2 THEN b
    ELSE IF b = 3 THEN 4
    ELSE IF b <= 7 THEN 8
    ELSE IF b <= 15 THEN 16
    ELSE IF b <= 31 THEN 32
    ELSE IF b <= 127 THEN 64
    ELSE 128

\* read_exact into `vec![0; COVERAGE_MAP_SIZE]`: the bytes that could be read.
ReadInto(stream, n) ==
    [x \in MapIndexes |-> IF x <= n /\ x <= Len(stream) THEN stream[x] ELSE 0]

\* Lines 249-253: the copy into the base observer's bitmap.
CopyToBase_BeforeCheck(full, buf, base) ==
    IF use_coverage THEN buf ELSE base

CopyToBase_Always(full, buf, base) ==
    IF full THEN buf ELSE base

CopyToBase(full, buf, base) ==
    IF full /\ use_coverage THEN buf ELSE base

\* Lines 255-261: `if b != 0 { overall_buffer[i] = b; }`
UpdateOverall_Assign(overall, buf) == buf

UpdateOverall(overall, buf) ==
    [x \in MapIndexes |-> IF buf[x] # 0 THEN buf[x] ELSE overall[x]]

NonZeroCount(map) == Cardinality({x \in MapIndexes : map[x] # 0})

\* save_overall_edge_count: the file after the call. It takes &self and
\* leaves last_overall_coverage as new() set it.
SaveOverallEdgeCount(overall, last_count, file) ==
    IF NonZeroCount(overall) <= last_count
    THEN file
    ELSE Append(file, NonZeroCount(overall))

\* post_exec. The agent answers the dump opcode with a map, of which it
\* sends `n_sent` bytes (all of them unless it dies); `avail` bytes of the
\* stream arrive before the read times out or ends.
PostExec ==
    /\ o_pc = "post"
    /\ \E wr_ok \in BOOLEAN, m \in Maps, n_sent \in 0..MapLen :
         /\ conn_up => wr_ok
         /\ ~conn_up => (n_sent = 0 /\ m = ZeroMap)
         /\ ~wr_ok => n_sent = 0
         /\ IF ~wr_ok
            THEN \* the expect on the write of b"d"
                 /\ o_pc' = "panic"
                 /\ UNCHANGED <<iter, base_observer, overall_coverage, overall_file,
                                sent, rx, conn_up, buffer, post_read>>
            ELSE LET stream == rx \o SubSeq([x \in MapIndexes |-> m[x]], 1, n_sent)
                     up     == conn_up /\ n_sent = MapLen
                 IN  \E avail \in 0..Len(stream) :
                       LET full == avail >= MapLen
                           buf  == ReadInto(stream, avail)
                           used == IF full THEN MapLen ELSE avail
                           ov   == IF full THEN UpdateOverall(overall_coverage, buf)
                                   ELSE overall_coverage
                           base == CopyToBase(full, buf, base_observer)
                       IN  /\ ~up => avail = Len(stream)
                           /\ Len(stream) - used <= MaxUnread
                           /\ sent' = Append(sent, "d")
                           /\ conn_up' = up
                           /\ rx' = SubSeq(stream, used + 1, Len(stream))
                           /\ buffer' = buf
                           /\ post_read' = IF full THEN "full" ELSE "short"
                           /\ overall_coverage' = ov
                           /\ overall_file' =
                                  IF full
                                  THEN SaveOverallEdgeCount(ov, last_overall_coverage,
                                                            overall_file)
                                  ELSE overall_file
                           /\ base_observer' =
                                  IF full
                                  THEN [x \in MapIndexes |-> HitcountClass(base[x])]
                                  ELSE base
                           /\ iter' = iter + 1
                           /\ o_pc' = "pre"
    /\ pre_i' = 0
    /\ UNCHANGED <<receiver_type, enable_synchronization, trace_native, use_coverage,
                   last_overall_coverage, patt, pre_result>>
    /\ UNCHANGED <<dvars, ivars, lvars>>

----------------------------------------------------------------------------
(* The intent value: intent_input.rs, util.rs *)

\* A value of Option<T> is the sequence of its items: <<>> is None.
None == <<>>

Some(v) == <<v>>

RECURSIVE Join(_, _)
\* Vec<String>::join(sep)
Join(strings, sep) ==
    IF strings = <<>> THEN ""
    ELSE IF Len(strings) = 1 THEN strings[1]
    ELSE strings[1] \o sep \o Join(Tail(strings), sep)

HexDigits ==
    <<"0", "1", "2", "3", "4", "5", "6", "7",
      "8", "9", "a", "b", "c", "d", "e", "f">>

RECURSIVE encode_hex(_)
\* bytes.iter().map(|b| format!("\\x{:02x}", b)).collect()
encode_hex(bytes) ==
    IF bytes = <<>> THEN ""
    ELSE "\\x" \o HexDigits[(Head(bytes) \div 16) + 1]
               \o HexDigits[(Head(bytes) % 16) + 1]
               \o encode_hex(Tail(bytes))

\* ---- iN::from_le_bytes(..).to_string(), for any width: the value of the
\* ---- two's complement little-endian bytes, in decimal.
Reverse(s) == [k \in 1..Len(s) |-> s[Len(s) + 1 - k]]

IsZero(s) == \A k \in 1..Len(s) : s[k] = 0

RECURSIVE AddOne(_)
AddOne(le) ==
    IF le = <<>> THEN <<>>
    ELSE IF Head(le) = 255 THEN <<0>> \o AddOne(Tail(le))
    ELSE <<Head(le) + 1>> \o Tail(le)

\* the magnitude of a negative value
Negate(le) == AddOne([k \in 1..Len(le) |-> 255 - le[k]])

RECURSIVE DivTen(_, _)
\* a big-endian number divided by ten: <<quotient, remainder>>
DivTen(be, carry) ==
    IF be = <<>> THEN <<<<>>, carry>>
    ELSE LET cur  == carry * 256 + Head(be)
             rest == DivTen(Tail(be), cur % 10)
         IN  <<<<cur \div 10>> \o rest[1], rest[2]>>

RECURSIVE Digits(_)
Digits(be) ==
    IF IsZero(be) THEN ""
    ELSE LET qr == DivTen(be, 0) IN Digits(qr[1]) \o ToString(qr[2])

UnsignedDecimal(be) == IF IsZero(be) THEN "0" ELSE Digits(be)

SignedDecimal(le) ==
    IF le[Len(le)] >= 128
    THEN "-" \o UnsignedDecimal(Reverse(Negate(le)))
    ELSE UnsignedDecimal(Reverse(le))

\* ---- f32::from_le_bytes(..): the classes the code tells apart.  A finite
\* ---- value's decimal text is one text per bit pattern (Rust prints the
\* ---- shortest text that reads back as the same value); it is written
\* ---- here as the bit pattern.
F32ExponentAllOnes(le) == le[4] % 128 = 127 /\ le[3] >= 128

F32MantissaZero(le) == le[1] = 0 /\ le[2] = 0 /\ le[3] % 128 = 0

F32IsInfinite(le) == F32ExponentAllOnes(le) /\ F32MantissaZero(le)

F32IsNan(le) == F32ExponentAllOnes(le) /\ ~F32MantissaZero(le)

F32SignPositive(le) == le[4] < 128

F32FiniteText(le) == "f32" \o encode_hex(Reverse(le))

\* ExtraType::Float: the scalar's text
F32ScalarText(le) ==
    IF F32IsInfinite(le)
    THEN (IF F32SignPositive(le) THEN "Infinity" ELSE "-Infinity")
    ELSE IF F32IsNan(le) THEN "NaN"
    ELSE F32FiniteText(le)

\* f32's Display, used for the items of float arrays
F32DisplayText(le) ==
    IF F32IsInfinite(le)
    THEN (IF F32SignPositive(le) THEN "inf" ELSE "-inf")
    ELSE IF F32IsNan(le) THEN "NaN"
    ELSE F32FiniteText(le)

RECURSIVE Chunks(_, _)
\* bytes.chunks(n), each chunk copied into a zeroed [u8; n]
Chunks(bytes, n) ==
    IF bytes = <<>> THEN <<>>
    ELSE IF Len(bytes) <= n
         THEN <<[k \in 1..n |-> IF k <= Len(bytes) THEN bytes[k] ELSE 0]>>
         ELSE <<SubSeq(bytes, 1, n)>> \o Chunks(SubSeq(bytes, n + 1, Len(bytes)), n)

\* ---- Display of the enums
URISchemeDisplay == [Content |-> "content", File |-> "file", Other |-> ""]

URISuffixDisplay ==
    [AAC |-> ".aac", APK |-> ".apk", GIF |-> ".gif", HTML |-> ".html",
     JPG |-> ".jpg", MIDI |-> ".midi", MP3 |-> ".mp3", MP4 |-> ".mp4",
     OGG |-> ".ogg", PDF |-> ".pdf", PNG |-> ".png", TXT |-> ".txt",
     WAV |-> ".wav", WMA |-> ".wma", WMV |-> ".wmv", XML |-> ".xml"]

ExtraTypeDisplay ==
    [String |-> "s", Boolean |-> "z", Int |-> "i", Long |-> "l", Float |-> "f",
     URI |-> "u", ComponentName |-> "cn", IntArray |-> "ia",
     IntArrayList |-> "ial", LongArray |-> "la", LongArrayList |-> "lal",
     FloatArray |-> "fa", FloatArrayList |-> "fal", StringArray |-> "sa",
     StringArrayList |-> "sal"]

MimeTypeDisplay ==
    [ApplicationPdf |-> "application/pdf",
     ApplicationVndAndroidPackageArchive |-> "application/vnd.android.package-archive",
     AudioAac |-> "audio/aac", AudioMidi |-> "audio/midi",
     AudioMpeg |-> "audio/mpeg", AudioMpeg4Generic |-> "audio/mpeg4-generic",
     AudioOgg |-> "audio/ogg", AudioWav |-> "audio/wav",
     AudioXMsWma |-> "audio/x-ms-wma", ImageGif |-> "image/gif",
     ImageJpeg |-> "image/jpeg", ImagePng |-> "image/png",
     TextHtml |-> "text/html", TextPlain |-> "text/plain",
     TextXml |-> "text/xml", VideoMp4 |-> "video/mp4",
     VideoXMsVideo |-> "video/x-msvideo", VideoXMsWmv |-> "video/x-ms-wmv"]

\* ---- the values
\* URIInput
URIInput(scheme, suffix, content) ==
    [scheme |-> scheme, suffix |-> suffix, content |-> content]

\* ExtraType::URI(uri)
URIValue(uri) == [tag |-> "URI", uri |-> uri]

\* every other variant of ExtraType, around a DirectInput
DirectValue(tag, bytes) == [tag |-> tag, buffer |-> bytes]

ExtraInput(key, value) == [key |-> key, value |-> value]

\* ExtraType::content_buffer
content_buffer(value) ==
    IF value.tag = "URI" THEN value.uri.content ELSE value.buffer

\* ... and the value with that buffer replaced (the &mut of content_buffer)
WithContentBuffer(value, bytes) ==
    IF value.tag = "URI"
    THEN [value EXCEPT !.uri.content = bytes]
    ELSE [value EXCEPT !.buffer = bytes]

\* IntentInput::component
component(input) == input.component_package \o "/" \o input.component_class

\* URIInput::identifier
identifier_Unnumbered(uri, id) ==
    IF uri.scheme = "Other" THEN encode_hex(uri.content)
    ELSE LET path == IF uri.scheme = "Content"
                     THEN "org.gts3.jnifuzz.contentprovider.provider/external_files"
                     ELSE "/data/local/tmp"
         IN  URISchemeDisplay[uri.scheme] \o "://" \o path \o "/extra_input"
                 \o URISuffixDisplay[uri.suffix]

identifier(uri, id) ==
    IF uri.scheme = "Other" THEN encode_hex(uri.content)
    ELSE LET path == IF uri.scheme = "Content"
                     THEN "org.gts3.jnifuzz.contentprovider.provider/external_files"
                     ELSE "/data/local/tmp"
         IN  URISchemeDisplay[uri.scheme] \o "://" \o path \o "/extra_input_"
                 \o ToString(id) \o URISuffixDisplay[uri.suffix]

\* The match of ExtraInput::command_args: the Option<String> arg_string.
ArgString(extra, index) ==
    LET value == extra.value
        tag   == value.tag
    IN  CASE tag = "URI" -> Some(identifier(value.uri, index))
          [] tag = "String" -> Some(encode_hex(value.buffer))
          [] tag = "Boolean" ->
                IF Len(value.buffer) > 0 /\ value.buffer[1] = 0
                THEN Some("false") ELSE Some("true")
          [] tag = "Int" ->
                IF Len(value.buffer) = 4
                THEN Some(SignedDecimal(value.buffer)) ELSE None
          [] tag = "Long" ->
                IF Len(value.buffer) = 8
                THEN Some(SignedDecimal(value.buffer)) ELSE None
          [] tag = "Float" ->
                IF Len(value.buffer) = 4
                THEN Some(F32ScalarText(value.buffer)) ELSE None
          [] tag \in {"IntArray", "IntArrayList"} ->
                LET chunks == Chunks(value.buffer, 4)
                    output == Join([k \in 1..Len(chunks) |-> SignedDecimal(chunks[k])], ",")
                IN  IF output = "" THEN None ELSE Some(output)
          [] tag \in {"LongArray", "LongArrayList"} ->
                LET chunks == Chunks(value.buffer, 8)
                    output == Join([k \in 1..Len(chunks) |-> SignedDecimal(chunks[k])], ",")
                IN  IF output = "" THEN None ELSE Some(output)
          [] tag \in {"FloatArray", "FloatArrayList"} ->
                LET chunks == Chunks(value.buffer, 4)
                    output == Join([k \in 1..Len(chunks) |-> F32DisplayText(chunks[k])], ",")
                IN  IF output = "" THEN None ELSE Some(output)
          [] tag \in {"StringArray", "StringArrayList"} ->
                LET result == [k \in 1..Len(value.buffer) |->
                                  IF value.buffer[k] = 0 THEN 44 ELSE value.buffer[k]]
                    output == encode_hex(result)
                IN  IF output = "" THEN None ELSE Some(output)
          [] OTHER -> None

\* ExtraInput::command_args
command_args(extra, index) ==
    LET arg_string == ArgString(extra, index)
    IN  IF arg_string = None THEN None
        ELSE Some(" --e" \o ExtraTypeDisplay[extra.value.tag] \o " '" \o extra.key
                      \o "' $'" \o arg_string[1] \o "'")

RECURSIVE FilterSome(_)
\* filter_map(..).collect(): the items of the Some values, in order
FilterSome(options) ==
    IF options = <<>> THEN <<>>
    ELSE Head(options) \o FilterSome(Tail(options))

\* IntentInput::shell_command.  It panics on a Service receiver: the match
\* has no value for one.
ShellCommandOf(input) ==
    LET am_command == CASE input.receiver_type = "Activity" -> "start"
                        [] input.receiver_type = "BroadcastReceiver" -> "broadcast"
        head == "am " \o am_command \o " -n '" \o component(input) \o "' -a '"
                    \o input.action \o "' -t '" \o MimeTypeDisplay[input.mime_type]
                    \o "' --grant-read-uri-permission "
        data == IF input.data # None
                THEN " -d '" \o identifier(input.data[1], 0) \o "'" ELSE ""
        category == IF input.category # "" THEN " -c " \o input.category ELSE ""
        extras_command ==
            Join(FilterSome([p \in 1..Len(input.extras) |->
                                command_args(input.extras[p], p)]), " ")
    IN  head \o data \o category \o " " \o extras_command

\* ---- serde_json::to_vec of the derived Serialize
JsonBytes(bytes) ==
    "{\"bytes\":[" \o Join([k \in 1..Len(bytes) |-> ToString(bytes[k])], ",") \o "]}"

JsonURIInput(uri) ==
    "{\"scheme\":\"" \o uri.scheme \o "\",\"suffix\":\"" \o uri.suffix
        \o "\",\"content\":" \o JsonBytes(uri.content) \o "}"

JsonData(data) == IF data = None THEN "null" ELSE JsonURIInput(data[1])

JsonExtraType(value) ==
    "{\"" \o value.tag \o "\":"
        \o (IF value.tag = "URI" THEN JsonURIInput(value.uri)
            ELSE "{\"buffer\":" \o JsonBytes(value.buffer) \o "}")
        \o "}"

\* u32::to_le_bytes
to_le_bytes(n) ==
    <<n % 256, (n \div 256) % 256, (n \div 65536) % 256, (n \div 16777216) % 256>>

RECURSIVE HashExtras(_)
HashExtras(extras) ==
    IF extras = <<>> THEN ""
    ELSE Head(extras).key \o JsonExtraType(Head(extras).value) \o HashExtras(Tail(extras))

\* What IntentInput::hash feeds the hasher, in order (raw bytes written as
\* their hex escapes).
HashFeed_NoMimeType(input) ==
    component(input) \o input.action \o input.category \o JsonData(input.data)
        \o encode_hex(to_le_bytes(input.flags)) \o HashExtras(input.extras)

HashFeed(input) ==
    component(input) \o input.action \o input.category \o JsonData(input.data)
        \o MimeTypeDisplay[input.mime_type]
        \o encode_hex(to_le_bytes(input.flags)) \o HashExtras(input.extras)

\* IntentInput::hash.  The 128-bit digest is taken to tell apart any two
\* feeds that differ; it is written as the feed.
hash(input) == "h128(" \o HashFeed(input) \o ")"

----------------------------------------------------------------------------
(* The seed generator: intent_generator.rs *)

Max(a, b) == IF a >= b THEN a ELSE b

RECURSIVE Find(_, _, _)
\* the position of the first `ch` of s at or after `from`, Len(s) + 1 if none
Find(s, ch, from) ==
    IF from > Len(s) THEN Len(s) + 1
    ELSE IF SubSeq(s, from, from) = ch THEN from
    ELSE Find(s, ch, from + 1)

\* IntentTemplate::package_name: component.split("/")[0]
package_name(template) ==
    SubSeq(template.component, 1, Find(template.component, "/", 1) - 1)

\* IntentTemplate::class_name: component.split("/")[1]
class_name(template) ==
    LET first == Find(template.component, "/", 1)
    IN  SubSeq(template.component, first + 1,
               Find(template.component, "/", first + 1) - 1)

\* IntentTemplate::number_of_intents
number_of_intents(template) ==
    Len(template.actions) * Max(1, Len(template.categories))

\* IntentTemplate::get_intent_input_for_index
get_intent_input_for_index_ByCategories(template, index) ==
    LET action_index   == index % Len(template.actions)
        category_index == index \div Max(1, Len(template.categories))
    IN  [receiver_type     |-> template.receiver_type,
         action            |-> template.actions[action_index + 1],
         category          |-> IF category_index < Len(template.categories)
                               THEN template.categories[category_index + 1]
                               ELSE "",
         component_package |-> package_name(template),
         component_class   |-> class_name(template),
         data              |-> None,
         mime_type         |-> "TextPlain",
         flags             |-> 0,
         extras            |-> <<>>]

get_intent_input_for_index(template, index) ==
    LET action_index   == index % Len(template.actions)
        category_index == index \div Max(1, Len(template.actions))
    IN  [receiver_type     |-> template.receiver_type,
         action            |-> template.actions[action_index + 1],
         category          |-> IF category_index < Len(template.categories)
                               THEN template.categories[category_index + 1]
                               ELSE "",
         component_package |-> package_name(template),
         component_class   |-> class_name(template),
         data              |-> None,
         mime_type         |-> "TextPlain",
         flags             |-> 0,
         extras            |-> <<>>]

RECURSIVE AllIntents(_)
\* templates.iter().flat_map(|t| (0..t.number_of_intents()).map(..))
AllIntents(ts) ==
    IF ts = <<>> THEN <<>>
    ELSE [k \in 1..number_of_intents(Head(ts)) |->
             get_intent_input_for_index(Head(ts), k - 1)]
         \o AllIntents(Tail(ts))

RECURSIVE TotalIntents(_)
\* IntentGenerator::number_of_intents
TotalIntents(ts) ==
    IF ts = <<>> THEN 0
    ELSE number_of_intents(Head(ts)) + TotalIntents(Tail(ts))

\* The most actions and the most categories of a template that is followed.
MaxActions == 2

MaxCategories == 2

ActionNames == {"android.intent.action.VIEW", "android.intent.action.SEND"}

CategoryNames == {"android.intent.category.DEFAULT", "android.intent.category.BROWSABLE"}

SeqsUpTo(S, n) == UNION {[1..k -> S] : k \in 0..n}

\* A template as IntentGenerator::new reads it from its JSON file.
IntentTemplate(receiver, comp, actions, categories, known_extras_keys) ==
    [receiver_type |-> receiver, component |-> comp, actions |-> actions,
     categories |-> categories, known_extras_keys |-> known_extras_keys]

\* IntentGenerator::new on a file: one template, read_count 0
GeneratorConstructed(template) ==
    /\ templates = <<template>>
    /\ read_count = 0
    /\ generated = <<>>

\* <IntentGenerator as Generator>::generate, called by
\* generate_initial_inputs_forced number_of_intents times (main.rs)
Generate ==
    /\ read_count < TotalIntents(templates)
    /\ generated' = Append(generated, AllIntents(templates)[read_count + 1])
    /\ read_count' = read_count + 1
    /\ UNCHANGED templates
    /\ UNCHANGED <<dvars, ovars, mvars, rvars, lvars>>

----------------------------------------------------------------------------
(* The mutators: intent_mutator.rs *)

\* `if input.extras.len() >= 10` of IntentRandomAddExtraMutator
MAX_EXTRAS == 10

\* util.rs COMMON_EXTRA_KEYS
COMMON_EXTRA_KEYS ==
    << <<"android.intent.extra.CC", "StringArray">>,
       <<"android.intent.extra.COMPONENT_NAME", "ComponentName">>,
       <<"android.intent.extra.EMAIL", "StringArray">>,
       <<"android.intent.extra.HTML_TEXT", "String">>,
       <<"android.intent.extra.INDEX", "Int">>,
       <<"android.intent.extra.MIME_TYPES", "StringArray">>,
       <<"android.intent.extra.PACKAGE_NAME", "String">>,
       <<"android.intent.extra.PHONE_NUMBER", "String">>,
       <<"android.intent.extra.QUICK_VIEW_FEATURES", "StringArray">>,
       <<"android.intent.extra.STREAM", "URI">>,
       <<"android.intent.extra.SUBJECT", "String">>,
       <<"android.intent.extra.TEXT", "String">>,
       <<"android.intent.extra.TITLE", "String">>,
       <<"android.intent.extra.UID", "Int">> >>

\* ---- What state.rand_mut() hands out.  Every draw is made from the values
\* ---- named here, a part of the range the code draws from.
\* choose(0..8) of the flag mutator
FlagBitChoices == {0, 7}

\* choose(URIScheme::iter()): all three
URISchemes == {"Content", "File", "Other"}

\* choose(URISuffix::iter())
URISuffixChoices == {"PNG", "TXT"}

\* choose(MimeType::iter())
MimeTypeChoices == {"ImagePng", "TextPlain"}

\* the entries of COMMON_EXTRA_KEYS a draw may pick: COMPONENT_NAME, INDEX,
\* STREAM, TEXT
CommonKeyChoices == {2, 5, 10, 12}

\* between(0, len - 1) of get_extra_to_mutate: the first or the last extra
ExtraIndexChoices(len) == {0, len - 1}

\* The buffers a byte-havoc that reports Mutated may leave.
HavocBuffers == {<<1>>, <<0, 1>>}

\* StdScheduledMutator<BytesInput, ..>::mutate on a buffer: <<result, bytes>>.
\* Skipped when every scheduled byte mutation skipped (the buffer is then
\* untouched); Mutated when one of them reported Mutated, whatever the
\* bytes are afterwards.
Havoc(bytes) ==
    {<<"Skipped", bytes>>} \cup {<<"Mutated", after>> : after \in HavocBuffers}

\* Vec<u8>::resize(n, 0)
resize(bytes, n) ==
    [k \in 1..n |-> IF k <= Len(bytes) THEN bytes[k] ELSE 0]

\* the template's known_extras_keys chained with COMMON_EXTRA_KEYS
ExtrasKeyTable(template) ==
    template.known_extras_keys
        \o [k \in 1..Len(COMMON_EXTRA_KEYS) |-> COMMON_EXTRA_KEYS[k]]

\* the entries of that table a draw may pick
ExtrasKeyChoices(template) ==
    {ExtrasKeyTable(template)[k] :
        k \in (1..Len(template.known_extras_keys))
              \cup {Len(template.known_extras_keys) + c : c \in CommonKeyChoices}}

\* the variants generate_random_extra's match knows by name
KnownExtraTypes == DOMAIN ExtraTypeDisplay

\* generate_random_extra, for the table entry and the scheme and suffix drawn
generate_random_extra(entry, scheme, suffix) ==
    LET key        == entry[1]
        extra_type == entry[2]
    IN  ExtraInput(key,
            IF extra_type = "URI" THEN URIValue(URIInput(scheme, suffix, <<>>))
            ELSE IF extra_type \in KnownExtraTypes THEN DirectValue(extra_type, <<>>)
            ELSE DirectValue("Boolean", <<>>))

\* the resize of mutate_content after a Mutated havoc
Resized(value) ==
    CASE value.tag = "Boolean" -> [value EXCEPT !.buffer = resize(@, 1)]
      [] value.tag \in {"Int", "Float"} -> [value EXCEPT !.buffer = resize(@, 4)]
      [] value.tag = "Long" -> [value EXCEPT !.buffer = resize(@, 8)]
      [] OTHER -> value

\* mutate_content, for the outcome of the havoc on extra's content buffer:
\* the result it returns and the extra it leaves
mutate_content(extra, outcome) ==
    LET result == outcome[1]
        value  == WithContentBuffer(extra.value, outcome[2])
    IN  [result |-> result,
         extra  |-> [extra EXCEPT !.value = IF result = "Mutated"
                                            THEN Resized(value) ELSE value]]

\* input.flags ^= 1 << bit
FlipFlag_AndAction(input, bit) ==
    [input EXCEPT !.action = "", !.flags = @ + 1]

FlipFlag_Sets(input, bit) ==
    [input EXCEPT !.flags = IF (@ \div (2 ^ bit)) % 2 = 1 THEN @ ELSE @ + 2 ^ bit]

FlipFlag(input, bit) ==
    [input EXCEPT !.flags = IF (@ \div (2 ^ bit)) % 2 = 1
                            THEN @ - 2 ^ bit ELSE @ + 2 ^ bit]

\* `if input.extras.len() >= 10 { return Ok(MutationResult::Skipped); }`
AddExtraSkips_OverTen(input) == Len(input.extras) > MAX_EXTRAS

AddExtraSkips(input) == Len(input.extras) >= MAX_EXTRAS

\* IntentRandomAddExtraMutator::mutate past its guard: the extra pushed and
\* its content mutated
AddExtra(input, entry, scheme, suffix, after) ==
    LET pushed  == generate_random_extra(entry, scheme, suffix)
        outcome == mutate_content(pushed, after)
    IN  [result |-> outcome.result,
         input  |-> [input EXCEPT !.extras = Append(@, outcome.extra)]]

\* The mutational stage goes on while the chain is short enough to follow.
MaxChain == 2

\* A mutate call returns: the input as it leaves it and the result.
MutateReturns(name, input, result) ==
    /\ m_before' = m_input
    /\ m_input' = input
    /\ m_mutator' = name
    /\ m_result' = result
    /\ m_chain' = m_chain + 1
    /\ UNCHANGED <<dvars, ovars, rvars, gvars, lvars>>

\* the template of the state's "intent_template" metadata
intent_template == templates[1]

IntentRandomFlagMutator ==
    /\ m_chain < MaxChain
    /\ \E bit \in FlagBitChoices :
          MutateReturns("IntentRandomFlagMutator", FlipFlag(m_input, bit), "Mutated")

IntentRandomDataMutator ==
    /\ m_chain < MaxChain
    /\ IF m_input.data # None
       THEN \E which \in 1..3 :
              CASE which = 1 ->
                     \E scheme \in URISchemes :
                        MutateReturns("IntentRandomDataMutator",
                            [m_input EXCEPT !.data[1].scheme = scheme], "Mutated")
                [] which = 2 ->
                     \E suffix \in URISuffixChoices :
                        MutateReturns("IntentRandomDataMutator",
                            [m_input EXCEPT !.data[1].suffix = suffix], "Mutated")
                [] OTHER ->
                     \E outcome \in Havoc(m_input.data[1].content) :
                        MutateReturns("IntentRandomDataMutator",
                            [m_input EXCEPT !.data[1].content = outcome[2]],
                            outcome[1])
       ELSE \E scheme \in URISchemes, suffix \in URISuffixChoices,
               outcome \in Havoc(<<>>) :
              MutateReturns("IntentRandomDataMutator",
                  [m_input EXCEPT !.data = Some(URIInput(scheme, suffix, outcome[2]))],
                  outcome[1])

IntentRandomMimeTypeMutator ==
    /\ m_chain < MaxChain
    /\ \E mime_type \in MimeTypeChoices :
          MutateReturns("IntentRandomTypeMutator",
              [m_input EXCEPT !.mime_type = mime_type], "Mutated")

IntentRandomAddExtraMutator ==
    /\ m_chain < MaxChain
    /\ IF AddExtraSkips(m_input)
       THEN MutateReturns("IntentRandomAddExtraMutator", m_input, "Skipped")
       ELSE \E entry \in ExtrasKeyChoices(intent_template),
               scheme \in URISchemes, suffix \in URISuffixChoices,
               outcome \in Havoc(<<>>) :
              \* the scheme and the suffix are drawn for a URI only
              /\ entry[2] # "URI" => (scheme = "Content" /\ suffix = "PNG")
              /\ LET added == AddExtra(m_input, entry, scheme, suffix, outcome)
                 IN  MutateReturns("IntentRandomAddExtraMutator",
                                   added.input, added.result)

IntentRandomExtraKeyMutator ==
    /\ m_chain < MaxChain
    /\ IF m_input.extras = <<>>
       THEN MutateReturns("IntentRandomExtraKeyMutator", m_input, "Skipped")
       ELSE \E index \in ExtraIndexChoices(Len(m_input.extras)),
               entry \in ExtrasKeyChoices(intent_template) :
              MutateReturns("IntentRandomExtraKeyMutator",
                  [m_input EXCEPT !.extras[index + 1].key = entry[1]], "Mutated")

IntentRandomExtraContentMutator ==
    /\ m_chain < MaxChain
    /\ IF m_input.extras = <<>>
       THEN MutateReturns("IntentRandomExtraContentMutator", m_input, "Skipped")
       ELSE \E index \in ExtraIndexChoices(Len(m_input.extras)) :
            \E outcome \in Havoc(content_buffer(m_input.extras[index + 1].value)) :
              LET mutated == mutate_content(m_input.extras[index + 1], outcome)
              IN  MutateReturns("IntentRandomExtraContentMutator",
                      [m_input EXCEPT !.extras[index + 1] = mutated.extra],
                      mutated.result)

IntentRandomExtraSchemeMutator ==
    /\ m_chain < MaxChain
    /\ IF m_input.extras = <<>>
       THEN MutateReturns("IntentRandomExtraSchemeMutator", m_input, "Skipped")
       ELSE \E index \in ExtraIndexChoices(Len(m_input.extras)) :
              IF m_input.extras[index + 1].value.tag = "URI"
              THEN \E scheme \in URISchemes :
                     MutateReturns("IntentRandomExtraSchemeMutator",
                         [m_input EXCEPT !.extras[index + 1].value.uri.scheme = scheme],
                         "Mutated")
              ELSE MutateReturns("IntentRandomExtraSchemeMutator", m_input, "Skipped")

IntentRandomExtraSuffixMutator ==
    /\ m_chain < MaxChain
    /\ IF m_input.extras = <<>>
       THEN MutateReturns("IntentRandomExtraSuffixMutator", m_input, "Skipped")
       ELSE \E index \in ExtraIndexChoices(Len(m_input.extras)) :
              IF m_input.extras[index + 1].value.tag = "URI"
              THEN \E suffix \in URISuffixChoices :
                     MutateReturns("IntentRandomExtraSuffixMutator",
                         [m_input EXCEPT !.extras[index + 1].value.uri.suffix = suffix],
                         "Mutated")
              ELSE MutateReturns("IntentRandomExtraSuffixMutator", m_input, "Skipped")

\* The template of the campaign whose mutations are followed: two keys of
\* its own, next to the common ones.
MutateTemplate ==
    IntentTemplate("Activity", "com.example.app/.ExampleActivity",
                   <<"android.intent.action.VIEW">>,
                   <<"android.intent.category.DEFAULT">>,
                   << <<"enabled", "Boolean">>, <<"stamp", "Long">> >>)

RECURSIVE CorpusEntry(_, _)
\* An input of the corpus with n extras: the seed after n calls of
\* IntentRandomAddExtraMutator that drew INDEX and a havoc leaving <<1>>.
CorpusEntry(template, n) ==
    IF n = 0 THEN get_intent_input_for_index(template, 0)
    ELSE AddExtra(CorpusEntry(template, n - 1), COMMON_EXTRA_KEYS[5],
                  "Content", "PNG", <<"Mutated", <<1>>>>).input

\* The stage takes an entry of the corpus.
MutationalStageOn(entry) ==
    /\ m_input = entry
    /\ m_before = entry
    /\ m_mutator = "none"
    /\ m_result = "none"
    /\ m_chain = 0

\* ... a seed, or an entry one extra short of the cap.
MutationalStageStarts ==
    /\ GeneratorConstructed(MutateTemplate)
    /\ \E n \in {0, MAX_EXTRAS - 1} : MutationalStageOn(CorpusEntry(MutateTemplate, n))

----------------------------------------------------------------------------
(* Side-channel provisioning: AdbExecutor::run_target, AdbDevice::create_file,
   AdbDevice::register_content *)

\* The (id, uri) pairs of run_target's iterator chain, in the order for_each
\* visits them: the URI extras by their place in extras, then the data URI.
UriWorklist_CountingUris(input) ==
    LET found == FilterSome([p \in 1..Len(input.extras) |->
                     IF input.extras[p].value.tag = "URI"
                     THEN Some(input.extras[p].value.uri) ELSE None])
    IN  [k \in 1..Len(found) |-> <<k, found[k]>>]
            \o [k \in 1..Len(input.data) |-> <<0, input.data[k]>>]

UriWorklist(input) ==
    FilterSome([p \in 1..Len(input.extras) |->
                   IF input.extras[p].value.tag = "URI"
                   THEN Some(<<p, input.extras[p].value.uri>>) ELSE None])
        \o [k \in 1..Len(input.data) |-> <<0, input.data[k]>>]

\* &identifier[7..]
SkipFilePrefix(ident) == SubSeq(ident, 8, Len(ident))

\* A command handed to `adb shell`, with what is written to its stdin.
\* `exit` is the command's exit status on the device.
DeviceCommand(kind, command, stdin) ==
    [kind |-> kind, command |-> command, stdin |-> stdin, exit |-> "ok"]

\* The command ends with a failure status.
Failed(cmd) == [cmd EXCEPT !.exit = "failure"]

\* AdbDevice::register_content
RegisterContentCommand(uri, content) ==
    DeviceCommand("content", "content write --uri " \o uri, content)

\* AdbDevice::create_file: its two commands
TouchCommand(filename) == DeviceCommand("touch", "touch " \o filename, <<>>)

EchoCommand(filename, content) ==
    DeviceCommand("echo",
        "echo -n -e \"" \o encode_hex(content) \o "\" > " \o filename, <<>>)

\* the first command of run_am_start
AmCommand(command) == DeviceCommand("am", command, <<>>)

RECURSIVE PayloadsOf(_)
\* What the for_each leaves on the device when no command fails: the name
\* and the bytes of every payload, in order.
PayloadsOf(worklist) ==
    IF worklist = <<>> THEN <<>>
    ELSE LET id    == Head(worklist)[1]
             uri   == Head(worklist)[2]
             ident == identifier(uri, id)
         IN  (CASE uri.scheme = "Content" -> <<<<ident, uri.content>>>>
                [] uri.scheme = "File" -> <<<<SkipFilePrefix(ident), uri.content>>>>
                [] OTHER -> <<>>)
             \o PayloadsOf(Tail(worklist))

\* run_target reaches run_am_start once the for_each has visited every pair.
ProvisioningDone_AtOnce(todo) == TRUE

ProvisioningDone(todo) == todo = <<>>

\* run_target is entered: shell_command is computed, the iterator is built.
RunTargetEntered(input) ==
    /\ r_pc = "provision"
    /\ r_input = input
    /\ shell_command = ShellCommandOf(input)
    /\ r_todo = UriWorklist(input)
    /\ device_cmds = <<>>

\* One turn of the for_each closure.  A command of create_file that fails
\* on the device panics (run_command gives Err on a failure status, and
\* create_file has an `expect` on it).  register_content spawns the command
\* itself: it panics when the command cannot be fed ("first": write_all on
\* the stdin of a command that is gone), yet it drops the exit status that
\* wait() hands back ("status"), and run_target goes on to the next pair.
RunTargetProvision ==
    /\ r_pc = "provision"
    /\ r_todo # <<>>
    /\ LET id    == Head(r_todo)[1]
           uri   == Head(r_todo)[2]
           ident == identifier(uri, id)
       IN  \E failing \in {"none", "first", "second", "status"} :
             CASE uri.scheme = "Content" ->
                    /\ failing # "second"
                    /\ device_cmds' =
                          Append(device_cmds,
                                 IF failing = "none"
                                 THEN RegisterContentCommand(ident, uri.content)
                                 ELSE Failed(RegisterContentCommand(ident, uri.content)))
                    /\ r_pc' = IF failing = "first" THEN "panic" ELSE "provision"
               [] uri.scheme = "File" ->
                    /\ failing # "status"
                    /\ device_cmds' =
                          CASE failing = "first" ->
                                 Append(device_cmds,
                                        Failed(TouchCommand(SkipFilePrefix(ident))))
                            [] failing = "second" ->
                                 device_cmds
                                 \o <<TouchCommand(SkipFilePrefix(ident)),
                                      Failed(EchoCommand(SkipFilePrefix(ident),
                                                         uri.content))>>
                            [] OTHER ->
                                 device_cmds
                                 \o <<TouchCommand(SkipFilePrefix(ident)),
                                      EchoCommand(SkipFilePrefix(ident), uri.content)>>
                    /\ r_pc' = IF failing = "none" THEN "provision" ELSE "panic"
               [] OTHER ->
                    /\ failing = "none"
                    /\ UNCHANGED <<device_cmds, r_pc>>
    /\ r_todo' = Tail(r_todo)
    /\ UNCHANGED <<r_input, shell_command>>
    /\ UNCHANGED <<dvars, ovars, mvars, gvars, lvars>>

\* run_am_start is called and issues its first attempt.
RunTargetDispatch ==
    /\ r_pc = "provision"
    /\ ProvisioningDone(r_todo)
    /\ device_cmds' = Append(device_cmds, AmCommand(shell_command))
    /\ r_pc' = "am"
    /\ UNCHANGED <<r_input, shell_command, r_todo>>
    /\ UNCHANGED <<dvars, ovars, mvars, gvars, lvars>>

\* The most extras of an input whose run_target call is followed.
MaxRunExtras == 2

\* The havoc outcomes behind those inputs' buffers.
RunHavoc == {<<"Skipped", <<>>>>, <<"Mutated", <<1>>>>}

\* The extras IntentRandomAddExtraMutator can have pushed.
RunExtras ==
    {AddExtra(CorpusEntry(MutateTemplate, 0), entry, scheme, "PNG", outcome).input.extras[1] :
        entry \in ExtrasKeyChoices(MutateTemplate), scheme \in URISchemes,
        outcome \in RunHavoc}

\* The data URIs IntentRandomDataMutator can have left.
RunData ==
    {None} \cup {Some(URIInput(scheme, "TXT", outcome[2])) :
                    scheme \in URISchemes, outcome \in RunHavoc}

\* The inputs the executor is handed.
RunInputs ==
    {[CorpusEntry(MutateTemplate, 0) EXCEPT !.data = data, !.extras = extras] :
        data \in RunData, extras \in SeqsUpTo(RunExtras, MaxRunExtras)}

----------------------------------------------------------------------------
(* main: the support gate and the two modes *)

\* CommandLineArgs: the flags main branches on.
CommandLineArgs ==
    [run_corpus : BOOLEAN, trace_native : BOOLEAN, no_coverage : BOOLEAN]

ReceiverTypes == {"Activity", "Service", "BroadcastReceiver"}

\* IntentGenerator::is_supported
is_supported_Always(loaded) == TRUE

is_supported(loaded) ==
    \/ loaded[1].receiver_type = "Activity"
    \/ loaded[1].receiver_type = "BroadcastReceiver"

\* main, fuzz mode: `if args.trace_native { println!(..); return; }`
FuzzRefused_Never(a) == FALSE

FuzzRefused(a) == a.trace_native

\* The trace_native argument main gives create_coverage_map_observer: the
\* literal `true` in re-run mode, the literal `false` in fuzz mode.
ObserverTraceNative(a) == IF a.run_corpus THEN TRUE ELSE FALSE

\* No observer exists yet.
ObserverAbsent ==
    /\ o_pc = "absent"
    /\ iter = 0
    /\ receiver_type = "none"
    /\ enable_synchronization = FALSE
    /\ trace_native = FALSE
    /\ use_coverage = FALSE
    /\ base_observer = ZeroMap
    /\ overall_coverage = ZeroMap
    /\ last_overall_coverage = 0
    /\ overall_file = <<>>
    /\ sent = <<>>
    /\ rx = <<>>
    /\ conn_up = FALSE
    /\ pre_i = 0
    /\ patt = <<>>
    /\ pre_result = "none"
    /\ buffer = ZeroMap
    /\ post_read = "none"

\* create_coverage_map_observer: SocketCoverageObserver::new, as a step of
\* main (the state ObserverConstructed describes).
create_coverage_map_observer(tn, sync, uc) ==
    /\ o_pc' = "pre"
    /\ iter' = 0
    /\ receiver_type' = templates[1].receiver_type
    /\ enable_synchronization' = sync
    /\ trace_native' = tn
    /\ use_coverage' = uc
    /\ base_observer' = ZeroMap
    /\ overall_coverage' = ZeroMap
    /\ last_overall_coverage' = 0
    /\ overall_file' = <<0>>
    /\ sent' = <<SyncOpcode(sync)>>
    /\ rx' = <<>>
    /\ conn_up' = TRUE
    /\ pre_i' = 0
    /\ patt' = <<>>
    /\ pre_result' = "none"
    /\ buffer' = ZeroMap
    /\ post_read' = "none"

\* main is entered: the arguments are parsed, the generator has loaded its
\* templates, nothing was sent to the device.
MainEntered(a, template) ==
    /\ main_pc = "start"
    /\ args = a
    /\ main_calls = <<>>
    /\ GeneratorConstructed(template)
    /\ ObserverAbsent

\* main up to `if args.run_corpus`: the support gate, then the two commands
\* every supported run starts with.  Each has an `expect` on its result.
MainGate ==
    /\ main_pc = "start"
    /\ IF ~is_supported(templates)
       THEN /\ main_pc' = "returned"
            /\ UNCHANGED main_calls
       ELSE \E done \in 1..2, ok \in BOOLEAN :
              /\ ok => done = 2
              /\ main_calls' = SubSeq(<<"grant_uri_permissions", "set_debug_app">>,
                                      1, done)
              /\ main_pc' = IF ok THEN "mode" ELSE "panic"
    /\ UNCHANGED <<args, dvars, ovars, ivars, restartvars, startvars,
                   stopvars>>

\* The calls of a mode up to its loop, in program order.
SetupCalls(a) ==
    <<IF a.run_corpus /\ a.trace_native
      THEN "enable_native_hooking" ELSE "disable_native_hooking",
      "restart_app",
      "create_coverage_map_observer",
      IF a.run_corpus THEN "re_run" ELSE "fuzz">>

\* One branch of `if args.run_corpus` up to the call of re_run or fuzz.  A
\* call that panics (the expects of the hooking commands, restart_app's
\* panic, the expect on connect in the observer's new) ends main there.
MainSetup ==
    /\ main_pc = "mode"
    /\ IF ~args.run_corpus /\ FuzzRefused(args)
       THEN /\ main_pc' = "returned"
            /\ UNCHANGED <<main_calls, ovars>>
       ELSE \E done \in 1..4 :
              /\ main_calls' = main_calls \o SubSeq(SetupCalls(args), 1, done)
              /\ IF done = 4
                 THEN /\ main_pc' = IF args.run_corpus THEN "re_run" ELSE "fuzz"
                      /\ create_coverage_map_observer(
                             ObserverTraceNative(args),
                             EnableSynchronization(templates[1].receiver_type),
                             ~args.no_coverage)
                 ELSE /\ main_pc' = "panic"
                      /\ UNCHANGED ovars
    /\ UNCHANGED <<args, dvars, ivars, restartvars, startvars,
                   stopvars>>

\* re_run returns once every corpus file went through the executor; main
\* stops the app and, if asked to trace, pulls the trace files.
MainReRunReturns ==
    /\ main_pc = "re_run"
    /\ o_pc = "pre"
    /\ pre_i = 0
    /\ o_pc' = "dropped"
    /\ \E ok \in BOOLEAN :
         /\ main_calls' = main_calls
                \o <<"stop_app">>
                \o (IF ok /\ args.trace_native
                    THEN <<"pull_native_trace_files">> ELSE <<>>)
         /\ main_pc' = IF ok THEN "returned" ELSE "panic"
    /\ UNCHANGED <<iter, receiver_type, enable_synchronization, trace_native,
                   use_coverage, base_observer, overall_coverage,
                   last_overall_coverage, overall_file, sent, rx, conn_up,
                   pre_i, patt, pre_result, buffer, post_read>>
    /\ UNCHANGED <<args, dvars, ivars, restartvars, startvars,
                   stopvars>>

\* An error of the loop (pre_exec's Err through the `expect` of re_run or
\* fuzz, or a panic inside the observer) ends main.
MainLoopFails ==
    /\ main_pc \in {"re_run", "fuzz"}
    /\ o_pc \in {"failed", "panic"}
    /\ main_pc' = "panic"
    /\ UNCHANGED <<args, main_calls, dvars, ovars, ivars, restartvars,
                   startvars, stopvars>>

----------------------------------------------------------------------------
(* One execution of the engine's loop with the dispatch inside it:
   pre_exec, run_target with run_am_start's attempts, post_exec *)

\* The answers of the device to `am` that are followed inside the loop, one
\* for each way an attempt can go: success, a timeout, a resource marker,
\* another failure, the missing activity.
LoopAnswers ==
    {[timed_out |-> FALSE, exit |-> "Exited0", stderr |-> {}],
     [timed_out |-> TRUE, exit |-> "Signaled", stderr |-> {}],
     [timed_out |-> FALSE, exit |-> "ExitedNonZero", stderr |-> {"oor"}],
     [timed_out |-> FALSE, exit |-> "ExitedNonZero", stderr |-> {"other"}],
     [timed_out |-> FALSE, exit |-> "Exited0",
      stderr |-> {"activity_class", "does_not_exist"}]}

\* run_am_start has called restart_app in this dispatch (lines 172-178).
DispatchRestarted ==
    \E k \in 1..Len(att) : \E j \in 1..Len(att[k].calls) :
        att[k].calls[j] = "restart_app"

\* What run_target does to the observer's session, which run_am_start does
\* not know of: a restart of the app ends the agent's side of it.
SessionAfterDispatch(up, restarted) == IF restarted THEN FALSE ELSE up

\* pre_exec of the execution that is followed.
LoopPreExec ==
    /\ d_pc = "idle"
    /\ iter = 0
    /\ PreExecAttempt

\* The engine calls run_target once pre_exec has returned Ok.
LoopRunTarget ==
    /\ o_pc = "exec"
    /\ d_pc = "idle"
    /\ RunTargetCall

LoopAmStartAttempt ==
    /\ o_pc = "exec"
    /\ RunAmStartAttempt
    /\ last' \in LoopAnswers

LoopRunTargetReturn ==
    /\ o_pc = "exec"
    /\ RunTargetReturn

\* run_target has returned; the engine goes on to post_exec. The app may
\* have died in the execution, and it has if it was restarted.
LoopExecuted ==
    /\ d_pc = "returned"
    /\ ExecuteTarget
    /\ conn_up' \in {SessionAfterDispatch(conn_up, DispatchRestarted), FALSE}

LoopPostExec ==
    /\ d_pc = "returned"
    /\ PostExec

----------------------------------------------------------------------------
(* Fuzz mode from the template files to the executor: IntentGenerator::new,
   the seeds, the mutational stage, shell_command *)

\* The most template files of a directory that is followed.
MaxDirEntries == 2

\* The mutate calls on one input of the stage that are followed here.
MaxFuzzChain == 1

\* What --intent-config names: one template file, or a directory of them.
\* The templates differ in their receiver type.
TemplateConfigs ==
    [kind : {"file"},
     entries : {<<[MutateTemplate EXCEPT !.receiver_type = rt]>> : rt \in ReceiverTypes}]
    \cup
    [kind : {"dir"},
     entries : SeqsUpTo({[MutateTemplate EXCEPT !.receiver_type = rt] :
                            rt \in ReceiverTypes}, MaxDirEntries)]

\* IntentGenerator::new, line 77: the filter on the files of a directory.
DirectoryKeeps_All(template) == TRUE

DirectoryKeeps(template) == template.receiver_type = "Activity"

\* IntentGenerator::new: the templates it ends with.
IntentGeneratorNew(config) ==
    IF config.kind = "dir"
    THEN SelectSeq(config.entries, DirectoryKeeps)
    ELSE config.entries

\* line 83: `if templates.is_empty() { panic!(..) }`
IntentGeneratorNewPanics(config) == IntentGeneratorNew(config) = <<>>

\* shell_command, lines 47-54: the match has an arm for Activity and for
\* BroadcastReceiver; `_ => panic!("Unsupported receiver type")`.
ShellCommandPanics(input) ==
    input.receiver_type \notin {"Activity", "BroadcastReceiver"}

\* main is entered in fuzz mode with that configuration.
FuzzEntered(config) ==
    /\ templates = IntentGeneratorNew(config)
    /\ read_count = 0
    /\ generated = <<>>
    /\ main_pc = IF IntentGeneratorNewPanics(config) THEN "panic" ELSE "start"
    /\ args = [run_corpus |-> FALSE, trace_native |-> FALSE, no_coverage |-> FALSE]
    /\ main_calls = <<>>
    /\ ObserverAbsent

\* The seeds of the corpus.
Seeds == {generated[k] : k \in 1..Len(generated)}

\* The stage holds an input of the corpus, or what the mutators made of it.
StageActive == m_chain > 0 \/ m_input \in Seeds

\* No call of run_target is under way.
RunTargetIdle ==
    /\ r_pc = "idle"
    /\ r_input = CorpusEntry(MutateTemplate, 0)
    /\ shell_command = ""
    /\ r_todo = <<>>
    /\ device_cmds = <<>>

\* generate_initial_inputs_forced: one call of generate.
FuzzGenerate ==
    /\ main_pc = "fuzz"
    /\ Generate

\* fuzz_loop: once all seeds are generated the stage takes one of them; the
\* run_target call of the input before, if any, has returned.
FuzzStageTakes ==
    /\ main_pc = "fuzz"
    /\ read_count = TotalIntents(templates)
    /\ ~StageActive \/ r_pc = "provision"
    /\ \E k \in 1..Len(generated) :
         /\ m_input' = generated[k]
         /\ m_before' = generated[k]
    /\ m_mutator' = "none"
    /\ m_result' = "none"
    /\ m_chain' = 0
    /\ r_pc' = "idle"
    /\ r_input' = CorpusEntry(MutateTemplate, 0)
    /\ shell_command' = ""
    /\ r_todo' = <<>>
    /\ device_cmds' = <<>>
    /\ UNCHANGED <<dvars, ovars, gvars, lvars>>

\* The scheduled mutator calls one of its eight mutators on the input.
FuzzMutate ==
    /\ main_pc = "fuzz"
    /\ StageActive
    /\ r_pc = "idle"
    /\ m_chain < MaxFuzzChain
    /\ \/ IntentRandomDataMutator
       \/ IntentRandomFlagMutator
       \/ IntentRandomMimeTypeMutator
       \/ IntentRandomAddExtraMutator
       \/ IntentRandomExtraKeyMutator
       \/ IntentRandomExtraContentMutator
       \/ IntentRandomExtraSchemeMutator
       \/ IntentRandomExtraSuffixMutator

\* The executor is handed the stage's input: run_target computes the shell
\* command, or panics in it.
FuzzRunTarget ==
    /\ main_pc = "fuzz"
    /\ StageActive
    /\ r_pc = "idle"
    /\ r_input' = m_input
    /\ IF ShellCommandPanics(m_input)
       THEN /\ r_pc' = "panic"
            /\ UNCHANGED <<shell_command, r_todo, device_cmds>>
       ELSE /\ r_pc' = "provision"
            /\ shell_command' = ShellCommandOf(m_input)
            /\ r_todo' = UriWorklist(m_input)
            /\ device_cmds' = <<>>
    /\ UNCHANGED <<dvars, ovars, mvars, gvars, lvars>>

----------------------------------------------------------------------------
(* AdbDevice::restart_app, stop_app, restart_device *)

\* `for i in 0..5` of restart_app, `for _ in 0..5` of stop_app
RESTART_RETRIES == 5

STOP_RETRIES == 5

\* restart_app, line 344: `if i > 1 { self.restart_device(); }`
RestartAppRestartsDevice_FromSecond(i) == i > 0

RestartAppRestartsDevice(i) == i > 1

\* stop_app: the pair `pm disable`, `pm enable` succeeds at try `tries`, or
\* every one of the STOP_RETRIES tries fails.
StopAppOutcomes ==
    [tries : 1..STOP_RETRIES, result : {"Ok"}]
        \cup [tries : {STOP_RETRIES}, result : {"Err"}]

\* restart_device: `stop`, `start`, each with an `expect`.
RestartDeviceOutcomes == {"ok", "panic"}

\* start_app returns Ok or Err, or panics on one of its own expects.
StartAppOutcomes == {"Ok", "Err", "panic"}

\* The calls of one pass of restart_app's loop body, in program order, up
\* to the one that panics.
RestartAppCalls(i, device, stop, start) ==
    LET first == IF RestartAppRestartsDevice(i) THEN <<"restart_device">> ELSE <<>>
    IN  IF RestartAppRestartsDevice(i) /\ device = "panic" THEN first
        ELSE IF stop.result = "Err" THEN first \o <<"stop_app">>
        ELSE first \o <<"stop_app", "start_app">>

\* How the pass ends: restart_app returns, panics, or goes to the next i.
RestartAppPassEnds(i, device, stop, start) ==
    IF RestartAppRestartsDevice(i) /\ device = "panic" THEN "panic"
    ELSE IF stop.result = "Err" THEN "panic"
    ELSE IF start = "Ok" THEN "returned"
    ELSE IF start = "panic" THEN "panic"
    ELSE IF i + 1 = RESTART_RETRIES THEN "panic"
    ELSE "loop"

\* restart_app is called.
RestartAppCalled ==
    /\ ra_pc = "loop"
    /\ ra_i = 0
    /\ ra_att = <<>>

\* One pass of the loop of restart_app; the panic after the loop belongs
\* to the last pass.
RestartAppAttempt ==
    /\ ra_pc = "loop"
    /\ ra_i < RESTART_RETRIES
    /\ \E device \in RestartDeviceOutcomes, stop \in StopAppOutcomes,
          start \in StartAppOutcomes :
         LET calls == RestartAppCalls(ra_i, device, stop, start)
             last_call == calls[Len(calls)]
         IN  /\ ~RestartAppRestartsDevice(ra_i) => device = "ok"
             \* outcomes of calls that are not reached are not drawn
             /\ last_call = "restart_device" =>
                    stop = [tries |-> 1, result |-> "Ok"]
             /\ last_call # "start_app" => start = "Err"
             /\ ra_att' = Append(ra_att,
                    [i |-> ra_i, calls |-> calls,
                     device |-> IF RestartAppRestartsDevice(ra_i) THEN device ELSE "none",
                     stop |-> IF last_call = "restart_device"
                              THEN [tries |-> 0, result |-> "none"] ELSE stop,
                     start |-> IF last_call = "start_app" THEN start ELSE "none"])
             /\ ra_pc' = RestartAppPassEnds(ra_i, device, stop, start)
             /\ ra_i' = ra_i + 1
    /\ UNCHANGED <<dvars, ovars, ivars, mainvars, startvars, stopvars>>

----------------------------------------------------------------------------
(* AdbDevice::stop_app, command by command *)

\* The app whose start is followed.
StartAppName == "com.example.app"

\* run_command: the command exits with success (Ok), exits with a failure
\* status (Err), or `adb` itself cannot be run (the expect of line 46).
RunCommandOutcomes == {"ok", "failure", "panic"}

PmDisableCommand(app) == DeviceCommand("pm disable", "pm disable " \o app, <<>>)

PmEnableCommand(app) == DeviceCommand("pm enable", "pm enable " \o app, <<>>)

\* A command as the log keeps it: with the exit status it ended with;
\* a command `adb` could not run has none.
Ended(cmd, outcome) ==
    IF outcome = "ok" THEN cmd
    ELSE IF outcome = "failure" THEN Failed(cmd)
    ELSE [cmd EXCEPT !.exit = "none"]

\* stop_app, lines 320-323: `pm enable` is run inside the `if` on
\* `pm disable ... .is_ok()`.
EnableIssued_Always(disable) == disable # "panic"

EnableIssued(disable) == disable = "ok"

\* The commands of one pass of the loop body.
StopAppPassCommands(app, disable, enable) ==
    <<Ended(PmDisableCommand(app), disable)>>
        \o (IF EnableIssued(disable) THEN <<Ended(PmEnableCommand(app), enable)>>
            ELSE <<>>)

\* How the pass ends: stop_app returns Ok, panics inside run_command, goes
\* to the next pass, or leaves the loop and returns Err.
StopAppPassEnds(i, disable, enable) ==
    IF disable = "panic" THEN "panic"
    ELSE IF EnableIssued(disable) /\ enable = "panic" THEN "panic"
    ELSE IF EnableIssued(disable) /\ enable = "ok" THEN "Ok"
    ELSE IF i + 1 = STOP_RETRIES THEN "Err"
    ELSE "loop"

\* stop_app is called.
StopAppCalled ==
    /\ st_pc = "loop"
    /\ st_i = 0
    /\ st_cmds = <<>>
    /\ st_result = "none"

\* One pass of the loop of stop_app; the Err after the loop belongs to the
\* last pass.
StopAppAttempt ==
    /\ st_pc = "loop"
    /\ st_i < STOP_RETRIES
    /\ \E disable \in RunCommandOutcomes, enable \in RunCommandOutcomes :
         LET ends == StopAppPassEnds(st_i, disable, enable)
         IN  \* the outcome of a command that is not run is not drawn
             /\ ~EnableIssued(disable) => enable = "ok"
             /\ st_cmds' = st_cmds \o StopAppPassCommands(StartAppName, disable, enable)
             /\ st_i' = st_i + 1
             /\ st_result' = IF ends \in {"Ok", "Err"} THEN ends ELSE "none"
             /\ st_pc' = IF ends \in {"Ok", "Err"} THEN "returned" ELSE ends
    /\ UNCHANGED <<dvars, ovars, ivars, mainvars, restartvars, startvars>>

----------------------------------------------------------------------------
(* AdbDevice::start_app: start_app_explicit, pid_of, and the wait for the
   idle line with its watchdog thread *)

\* The most items the main thread takes from the logcat reader.
MaxLines == 2

\* By how many seconds thread::sleep may overrun the second it was asked
\* for (it sleeps "at least" the duration).
MaxOversleep == 1

\* line 265: `my_time.elapsed() > Duration::from_secs(20)`
WATCHDOG_TIMEOUT == 20

\* line 274: `thread::sleep(Duration::from_secs(1))`
WATCHDOG_POLL == 1

\* s has sub as a substring
Contains(s, sub) ==
    \E k \in 1..(Len(s) - Len(sub) + 1) : SubSeq(s, k, k + Len(sub) - 1) = sub

\* The characters str::trim takes off (those that occur in the outputs).
Whitespace == {" ", "\t", "\n", "\r"}

RECURSIVE trim_start(_)
trim_start(str) ==
    IF Len(str) > 0 /\ SubSeq(str, 1, 1) \in Whitespace
    THEN trim_start(SubSeq(str, 2, Len(str)))
    ELSE str

RECURSIVE trim_end(_)
trim_end(str) ==
    IF Len(str) > 0 /\ SubSeq(str, Len(str), Len(str)) \in Whitespace
    THEN trim_end(SubSeq(str, 1, Len(str) - 1))
    ELSE str

\* str::trim
trim(str) == trim_end(trim_start(str))

\* What `cmd package resolve-activity --brief <app> | tail -n 1` prints: the
\* component, the message of a failed resolution, a line with a tab in it.
ResolveOutputs ==
    {"com.example.app/.ExampleActivity\n",
     "No activity found\n",
     "com.example.app/.Example\tActivity\n"}

\* What `pidof -s <app>` prints.
PidofOutputs == {"4242\n", "\n", ""}

\* start_app_explicit, line 208: `main_activity.contains(" ")`
ActivityRejected_Never(activity) == FALSE

ActivityRejected(activity) == Contains(activity, " ")

\* pid_of, line 374: `pid.is_empty()`
PidRejected(p) == p = ""

\* The commands of start_app, as handed to `adb shell`.
ResolveCommand(app) ==
    DeviceCommand("resolve",
        "cmd package resolve-activity --brief " \o app \o " | tail -n 1", <<>>)

AmStartCommand(app, activity) ==
    DeviceCommand("am_start",
        "am start-activity --attach-agent /data/user/0/" \o app
            \o "/code_cache/startup_agents/libcoverage_instrumenting_agent.so "
            \o activity, <<>>)

PidofCommand(app) == DeviceCommand("pidof", "pidof -s " \o app, <<>>)

LogcatCommand(p) == DeviceCommand("logcat", "logcat --pid=" \o p, <<>>)

\* line 291
IdleMarker == "ActivityThread: Reporting idle of ActivityRecord"

\* The items reader.next() yields: Some(Ok(line)) for a line of logcat,
\* Some(Err(_)) for bytes that are no UTF-8, None at the end of the stream.
LogLines ==
    {"I ActivityThread: Reporting idle of ActivityRecord{1 u0 t1}",
     "D ExampleActivity: onCreate"}

ReaderItems ==
    [kind : {"line"}, text : LogLines]
        \cup {[kind |-> "err", text |-> ""], [kind |-> "eof", text |-> ""]}

\* No item was taken yet.
NoItem == [kind |-> "none", text |-> ""]

\* lines 290-291: `Ok(line)` with `line.contains(..)`
IsIdleLine(item) == item.kind = "line" /\ Contains(item.text, IdleMarker)

\* line 265
Stale_AtLeast(age) == age >= WATCHDOG_TIMEOUT

Stale(age) == age > WATCHDOG_TIMEOUT

\* The holder of the mutex when the watchdog's `match` is left: the guard
\* is a temporary of the scrutinee and is dropped with the match, before
\* the sleep and before the kill.
MutexAfterMatch_Kept == "watchdog"

MutexAfterMatch == "free"

\* Ages are counted up to the first value no comparison tells from larger
\* ones.
AgeCap == WATCHDOG_TIMEOUT + WATCHDOG_POLL + MaxOversleep + 1

\* The Instant in last_update a second later.
Older(u) ==
    IF u = None THEN None
    ELSE Some(IF u[1] < AgeCap THEN u[1] + 1 ELSE AgeCap)

\* start_app is called.
StartAppCalled ==
    /\ sa_pc = "explicit"
    /\ sa_item = NoItem
    /\ sa_result = "none"
    /\ sa_log = <<>>
    /\ main_activity = ""
    /\ pid = ""
    /\ lines_read = 0
    /\ logcat_child = "none"
    /\ last_update = None
    /\ mutex = "free"
    /\ wd_pc = "absent"
    /\ wd_slept = 0
    /\ wd_saw = [kind |-> "nothing", age |-> 0]
    /\ gap_over = FALSE

\* start_app_explicit and the `?` on it.
StartAppExplicit ==
    /\ sa_pc = "explicit"
    /\ \E resolved \in BOOLEAN, output \in ResolveOutputs, am_ok \in BOOLEAN :
         LET activity == trim(output)
         IN  /\ ~resolved => (output = "No activity found\n" /\ ~am_ok)
             /\ (resolved /\ ActivityRejected(activity)) => ~am_ok
             /\ IF ~resolved
                THEN \* the expect on the resolve command
                     /\ sa_pc' = "panic"
                     /\ sa_log' = <<Failed(ResolveCommand(StartAppName))>>
                     /\ UNCHANGED <<main_activity, sa_result>>
                ELSE IF ActivityRejected(activity)
                THEN /\ sa_pc' = "returned"
                     /\ sa_result' = "Err"
                     /\ main_activity' = activity
                     /\ sa_log' = <<ResolveCommand(StartAppName)>>
                ELSE /\ main_activity' = activity
                     /\ sa_log' = <<ResolveCommand(StartAppName),
                                    IF am_ok
                                    THEN AmStartCommand(StartAppName, activity)
                                    ELSE Failed(AmStartCommand(StartAppName,
                                                               activity))>>
                     /\ sa_pc' = IF am_ok THEN "pidof" ELSE "returned"
                     /\ sa_result' = IF am_ok THEN "none" ELSE "Err"
    /\ UNCHANGED <<sa_item, pid, lines_read, logcat_child, last_update, mutex,
                   wd_pc, wd_slept, wd_saw, gap_over>>
    /\ UNCHANGED <<dvars, ovars, ivars, mainvars, restartvars, stopvars>>

\* pid_of and the `?` on it.
PidOf ==
    /\ sa_pc = "pidof"
    /\ \E ran \in BOOLEAN, output \in PidofOutputs :
         LET p == trim(output)
         IN  /\ ~ran => output = ""
             /\ sa_log' = Append(sa_log,
                                  IF ran THEN PidofCommand(StartAppName)
                                  ELSE Failed(PidofCommand(StartAppName)))
             /\ IF ~ran \/ PidRejected(p)
                THEN /\ sa_pc' = "returned"
                     /\ sa_result' = "Err"
                     /\ UNCHANGED pid
                ELSE /\ sa_pc' = "logcat"
                     /\ pid' = p
                     /\ UNCHANGED sa_result
    /\ UNCHANGED <<sa_item, main_activity, lines_read, logcat_child, last_update,
                   mutex, wd_pc, wd_slept, wd_saw, gap_over>>
    /\ UNCHANGED <<dvars, ovars, ivars, mainvars, restartvars, stopvars>>

\* Lines 247-278: logcat is spawned, last_update is made with the current
\* Instant, the watchdog thread is started.
SpawnLogcat ==
    /\ sa_pc = "logcat"
    /\ sa_log' = Append(sa_log, LogcatCommand(pid))
    /\ logcat_child' = "running"
    /\ last_update' = Some(0)
    /\ wd_pc' = "poll"
    /\ sa_pc' = "read"
    /\ UNCHANGED <<sa_item, sa_result, main_activity, pid, lines_read, mutex,
                   wd_slept, wd_saw, gap_over>>
    /\ UNCHANGED <<dvars, ovars, ivars, mainvars, restartvars, stopvars>>

\* reader.next(): a line (with the idle marker or without), an item that is
\* an Err, or the end of the stream once logcat is gone.  What logcat wrote
\* before it went can still be read.  gap_over records that an item came
\* after more than WATCHDOG_TIMEOUT seconds without one.
ReaderNext ==
    /\ sa_pc = "read"
    /\ \E item \in ReaderItems :
         /\ item.kind = "eof" => logcat_child # "running"
         /\ item.kind # "eof" => lines_read < MaxLines
         /\ sa_item' = item
         /\ IF item.kind = "eof"
            THEN /\ sa_pc' = "signal"
                 /\ UNCHANGED <<lines_read, gap_over>>
            ELSE /\ sa_pc' = "update"
                 /\ lines_read' = lines_read + 1
                 /\ gap_over' = (gap_over \/ last_update[1] > WATCHDOG_TIMEOUT)
    /\ UNCHANGED <<sa_result, sa_log, main_activity, pid, logcat_child,
                   last_update, mutex, wd_pc, wd_slept, wd_saw>>
    /\ UNCHANGED <<dvars, ovars, ivars, mainvars, restartvars, stopvars>>

\* `last_update.lock().unwrap()` of the main thread (lines 281 and 287).
MainLocks ==
    /\ sa_pc \in {"update", "signal"}
    /\ mutex = "free"
    /\ mutex' = "main"
    /\ sa_pc' = IF sa_pc = "update" THEN "update_locked" ELSE "signal_locked"
    /\ UNCHANGED <<sa_item, sa_result, sa_log, main_activity, pid, lines_read,
                   logcat_child, last_update, wd_pc, wd_slept, wd_saw, gap_over>>
    /\ UNCHANGED <<dvars, ovars, ivars, mainvars, restartvars, stopvars>>

\* The assignment through the guard, which is dropped at the end of the
\* statement: Some(now) at line 287, followed by the match on the line;
\* None at line 281, followed by the join.
MainWrites ==
    /\ sa_pc \in {"update_locked", "signal_locked"}
    /\ mutex' = "free"
    /\ IF sa_pc = "update_locked"
       THEN /\ last_update' = Some(0)
            /\ sa_pc' = IF IsIdleLine(sa_item) THEN "signal" ELSE "read"
       ELSE /\ last_update' = None
            /\ sa_pc' = "join"
    /\ UNCHANGED <<sa_item, sa_result, sa_log, main_activity, pid, lines_read,
                   logcat_child, wd_pc, wd_slept, wd_saw, gap_over>>
    /\ UNCHANGED <<dvars, ovars, ivars, mainvars, restartvars, stopvars>>

\* handle.join() returns when the watchdog thread has ended; start_app
\* returns Ok after the idle line and Err after the end of the stream.
JoinReturns ==
    /\ sa_pc = "join"
    /\ wd_pc = "done"
    /\ sa_pc' = "returned"
    /\ sa_result' = IF IsIdleLine(sa_item) THEN "Ok" ELSE "Err"
    /\ UNCHANGED <<sa_item, sa_log, main_activity, pid, lines_read, logcat_child,
                   last_update, mutex, wd_pc, wd_slept, wd_saw, gap_over>>
    /\ UNCHANGED <<dvars, ovars, ivars, mainvars, restartvars, stopvars>>

\* The watchdog: `last_update_clone.lock().unwrap()` (line 263).
WatchdogLocks ==
    /\ wd_pc = "poll"
    /\ mutex = "free"
    /\ mutex' = "watchdog"
    /\ wd_pc' = "check"
    /\ UNCHANGED <<sa_pc, sa_item, sa_result, sa_log, main_activity, pid,
                   lines_read, logcat_child, last_update, wd_slept, wd_saw,
                   gap_over>>
    /\ UNCHANGED <<dvars, ovars, ivars, mainvars, restartvars, stopvars>>

\* The watchdog's match (lines 263-272): it leaves the loop on None and on
\* an Instant older than the timeout, and goes to sleep otherwise.
WatchdogChecks ==
    /\ wd_pc = "check"
    /\ mutex' = MutexAfterMatch
    /\ IF last_update = None
       THEN /\ wd_pc' = "kill"
            /\ wd_saw' = [kind |-> "none", age |-> 0]
       ELSE IF Stale(last_update[1])
       THEN /\ wd_pc' = "kill"
            /\ wd_saw' = [kind |-> "stale", age |-> last_update[1]]
       ELSE /\ wd_pc' = "sleep"
            /\ wd_saw' = [kind |-> "fresh", age |-> last_update[1]]
    /\ wd_slept' = 0
    /\ UNCHANGED <<sa_pc, sa_item, sa_result, sa_log, main_activity, pid,
                   lines_read, logcat_child, last_update, gap_over>>
    /\ UNCHANGED <<dvars, ovars, ivars, mainvars, restartvars, stopvars>>

\* thread::sleep returns, after WATCHDOG_POLL seconds at the least.
WatchdogWakes ==
    /\ wd_pc = "sleep"
    /\ wd_slept >= WATCHDOG_POLL
    /\ wd_pc' = "poll"
    /\ UNCHANGED <<sa_pc, sa_item, sa_result, sa_log, main_activity, pid,
                   lines_read, logcat_child, last_update, mutex, wd_slept,
                   wd_saw, gap_over>>
    /\ UNCHANGED <<dvars, ovars, ivars, mainvars, restartvars, stopvars>>

\* line 277: logcat_child.kill(), and the thread ends.
WatchdogKills ==
    /\ wd_pc = "kill"
    /\ logcat_child' = IF logcat_child = "running" THEN "killed" ELSE logcat_child
    /\ wd_pc' = "done"
    /\ UNCHANGED <<sa_pc, sa_item, sa_result, sa_log, main_activity, pid,
                   lines_read, last_update, mutex, wd_slept, wd_saw, gap_over>>
    /\ UNCHANGED <<dvars, ovars, ivars, mainvars, restartvars, stopvars>>

\* logcat ends by itself (the adb connection is lost).
LogcatExits ==
    /\ logcat_child = "running"
    /\ logcat_child' = "exited"
    /\ UNCHANGED <<sa_pc, sa_item, sa_result, sa_log, main_activity, pid,
                   lines_read, last_update, mutex, wd_pc, wd_slept, wd_saw,
                   gap_over>>
    /\ UNCHANGED <<dvars, ovars, ivars, mainvars, restartvars, stopvars>>

\* A second passes.  Only a blocked thread lets time pass: the main thread
\* in reader.next() on a live logcat or in join, the watchdog in its sleep,
\* which lasts WATCHDOG_POLL + MaxOversleep seconds at the most; every
\* other step is taken as soon as it can be.
Tick ==
    /\ \/ sa_pc = "read" /\ logcat_child = "running"
       \/ sa_pc = "join"
    /\ wd_pc = "sleep"
    /\ wd_slept < WATCHDOG_POLL + MaxOversleep
    /\ wd_slept' = wd_slept + 1
    /\ last_update' = Older(last_update)
    /\ UNCHANGED <<sa_pc, sa_item, sa_result, sa_log, main_activity, pid,
                   lines_read, logcat_child, mutex, wd_pc, wd_saw, gap_over>>
    /\ UNCHANGED <<dvars, ovars, ivars, mainvars, restartvars, stopvars>>

----------------------------------------------------------------------------
(* The specifications *)

InitDispatch ==
    /\ d_pc = "idle"
    /\ d_i = 0
    /\ att = <<>>
    /\ last = NoAnswer
    /\ am_result = "none"
    /\ exit_kind = "none"

\* The support gate of main lets Activity and BroadcastReceiver through; the
\* observer is built with trace_native true (re-run) or false (fuzz).
InitObserver ==
    \E rt \in {"Activity", "BroadcastReceiver"}, tn \in BOOLEAN, uc \in BOOLEAN :
        ObserverConstructed(rt, tn, uc)

NextDispatch ==
    \/ RunTargetCall
    \/ RunAmStartAttempt
    \/ RunTargetReturn

\* The dispatch on its own: the observer stays as constructed for an
\* Activity target in fuzz mode.
\* The intent's side at rest: the seeds are generated, the stage holds the
\* first seed, run_target is entered with it.
InitIntent ==
    /\ GeneratorConstructed(MutateTemplate)
    /\ MutationalStageOn(CorpusEntry(MutateTemplate, 0))
    /\ RunTargetEntered(CorpusEntry(MutateTemplate, 0))

\* main and the app's life cycle, for the specifications that start inside
\* the loop.
LifecycleAtRest ==
    /\ main_pc = "fuzz"
    /\ args = [run_corpus |-> FALSE, trace_native |-> FALSE, no_coverage |-> FALSE]
    /\ main_calls = <<>>
    /\ RestartAppCalled
    /\ StartAppCalled
    /\ StopAppCalled

InitDispatchOnly ==
    /\ InitDispatch
    /\ ObserverConstructed("Activity", FALSE, TRUE)
    /\ InitIntent
    /\ LifecycleAtRest

SpecDispatch == InitDispatchOnly /\ [][NextDispatch]_vars

Init == InitObserver /\ InitDispatch /\ InitIntent /\ LifecycleAtRest

Next ==
    \/ PreExecAttempt
    \/ ExecuteTarget
    \/ PostExec

Spec == Init /\ [][Next]_vars

\* The mutators on their own.
InitMutate ==
    /\ MutationalStageStarts
    /\ RunTargetEntered(CorpusEntry(MutateTemplate, 0))
    /\ InitDispatch
    /\ ObserverConstructed("Activity", FALSE, TRUE)
    /\ LifecycleAtRest

NextMutate ==
    \/ IntentRandomDataMutator
    \/ IntentRandomFlagMutator
    \/ IntentRandomMimeTypeMutator
    \/ IntentRandomAddExtraMutator
    \/ IntentRandomExtraKeyMutator
    \/ IntentRandomExtraContentMutator
    \/ IntentRandomExtraSchemeMutator
    \/ IntentRandomExtraSuffixMutator

SpecMutate == InitMutate /\ [][NextMutate]_vars

\* run_target's provisioning on its own, for any input the executor is
\* handed.
InitRunTarget ==
    /\ \E input \in RunInputs : RunTargetEntered(input)
    /\ GeneratorConstructed(MutateTemplate)
    /\ MutationalStageOn(CorpusEntry(MutateTemplate, 0))
    /\ InitDispatch
    /\ ObserverConstructed("Activity", FALSE, TRUE)
    /\ LifecycleAtRest

NextRunTarget ==
    \/ RunTargetProvision
    \/ RunTargetDispatch

SpecRunTarget == InitRunTarget /\ [][NextRunTarget]_vars

\* The generator on its own, for any template of the followed sizes.
InitGenerate ==
    /\ \E actions \in SeqsUpTo(ActionNames, MaxActions),
          categories \in SeqsUpTo(CategoryNames, MaxCategories) :
          GeneratorConstructed(IntentTemplate("Activity",
              "com.example.app/.ExampleActivity", actions, categories, <<>>))
    /\ MutationalStageOn(CorpusEntry(MutateTemplate, 0))
    /\ RunTargetEntered(CorpusEntry(MutateTemplate, 0))
    /\ InitDispatch
    /\ ObserverConstructed("Activity", FALSE, TRUE)
    /\ LifecycleAtRest

NextGenerate == Generate

SpecGenerate == InitGenerate /\ [][NextGenerate]_vars

\* main from its entry: any flags, a first template of any receiver type.
InitMain ==
    /\ \E a \in CommandLineArgs, rt \in ReceiverTypes :
          MainEntered(a, [MutateTemplate EXCEPT !.receiver_type = rt])
    /\ MutationalStageOn(CorpusEntry(MutateTemplate, 0))
    /\ RunTargetEntered(CorpusEntry(MutateTemplate, 0))
    /\ InitDispatch
    /\ RestartAppCalled
    /\ StartAppCalled
    /\ StopAppCalled

NextMain ==
    \/ MainGate
    \/ MainSetup
    \/ PreExecAttempt
    \/ ExecuteTarget
    \/ PostExec
    \/ MainReRunReturns
    \/ MainLoopFails

SpecMain == InitMain /\ [][NextMain]_vars

\* One execution of the loop, for an Activity target in fuzz mode.
InitLoop ==
    /\ InitDispatch
    /\ ObserverConstructed("Activity", FALSE, TRUE)
    /\ InitIntent
    /\ LifecycleAtRest

NextLoop ==
    \/ LoopPreExec
    \/ LoopRunTarget
    \/ LoopAmStartAttempt
    \/ LoopRunTargetReturn
    \/ LoopExecuted
    \/ LoopPostExec

SpecLoop == InitLoop /\ [][NextLoop]_vars

\* Fuzz mode from any configuration of template files.
InitFuzz ==
    /\ \E config \in TemplateConfigs : FuzzEntered(config)
    /\ MutationalStageOn(CorpusEntry(MutateTemplate, 0))
    /\ RunTargetIdle
    /\ InitDispatch
    /\ RestartAppCalled
    /\ StartAppCalled
    /\ StopAppCalled

NextFuzz ==
    \/ MainGate
    \/ MainSetup
    \/ FuzzGenerate
    \/ FuzzStageTakes
    \/ FuzzMutate
    \/ FuzzRunTarget

SpecFuzz == InitFuzz /\ [][NextFuzz]_vars

\* One call of restart_app.
InitRestartApp ==
    /\ RestartAppCalled
    /\ StartAppCalled
    /\ StopAppCalled
    /\ main_pc = "fuzz"
    /\ args = [run_corpus |-> FALSE, trace_native |-> FALSE, no_coverage |-> FALSE]
    /\ main_calls = <<>>
    /\ InitDispatch
    /\ ObserverConstructed("Activity", FALSE, TRUE)
    /\ InitIntent

NextRestartApp == RestartAppAttempt

SpecRestartApp == InitRestartApp /\ [][NextRestartApp]_vars

\* One call of stop_app.
InitStopApp ==
    /\ StopAppCalled
    /\ RestartAppCalled
    /\ StartAppCalled
    /\ main_pc = "fuzz"
    /\ args = [run_corpus |-> FALSE, trace_native |-> FALSE, no_coverage |-> FALSE]
    /\ main_calls = <<>>
    /\ InitDispatch
    /\ ObserverConstructed("Activity", FALSE, TRUE)
    /\ InitIntent

NextStopApp == StopAppAttempt

SpecStopApp == InitStopApp /\ [][NextStopApp]_vars

\* One call of start_app, its two threads interleaved.
InitStartApp ==
    /\ StartAppCalled
    /\ StopAppCalled
    /\ RestartAppCalled
    /\ main_pc = "fuzz"
    /\ args = [run_corpus |-> FALSE, trace_native |-> FALSE, no_coverage |-> FALSE]
    /\ main_calls = <<>>
    /\ InitDispatch
    /\ ObserverConstructed("Activity", FALSE, TRUE)
    /\ InitIntent

MainThread ==
    \/ StartAppExplicit
    \/ PidOf
    \/ SpawnLogcat
    \/ ReaderNext
    \/ MainLocks
    \/ MainWrites
    \/ JoinReturns

WatchdogThread ==
    \/ WatchdogLocks
    \/ WatchdogChecks
    \/ WatchdogWakes
    \/ WatchdogKills

NextStartApp ==
    \/ MainThread
    \/ WatchdogThread
    \/ LogcatExits
    \/ Tick

SpecStartApp == InitStartApp /\ [][NextStartApp]_vars

\* The same with progress: a thread that can take a step takes one, and
\* time passes while both are blocked.
SpecStartAppFair == SpecStartApp /\ WF_vars(NextStartApp)

----------------------------------------------------------------------------
(* Claims about the dispatch (checked under SpecDispatch) *)

RE == "ResourceExhaustion"

C3_BoundedRetries ==
    /\ Len(att) <= AM_RETRIES
    /\ \A k \in 1..(Len(att) - 1) : att[k].cls \in {RE, "Failure"}
    /\ (/\ Len(att) = AM_RETRIES
        /\ att[AM_RETRIES].cls \in {RE, "Failure"}
        /\ d_pc # "panic") => am_result = "ErrOther"
    /\ am_result = "ErrOther" => Len(att) = AM_RETRIES
    /\ d_pc = "returned" =>
           /\ exit_kind \in {"Ok", "Timeout"}
           /\ exit_kind = "Timeout" <=> am_result \in {"ErrTimedOut", "ErrOther"}
           /\ exit_kind = "Ok" <=> am_result = "Ok"
    /\ d_pc # "returned" => exit_kind = "none"

\* Five failed attempts, surfaced as Timeout.
C3_Witness ==
    /\ d_pc = "returned"
    /\ Len(att) = AM_RETRIES
    /\ am_result = "ErrOther"
    /\ exit_kind = "Timeout"

----------------------------------------------------------------------------
(* Claims about the coverage observer (checked under Spec) *)

IsPrefix(p, q) == Len(p) <= Len(q) /\ SubSeq(q, 1, Len(p)) = p

\* C4: pre_exec sends the reset opcode 'r' at most 5 times per execution,
\* returns success at the first attempt whose one-byte reply is 'd' with no
\* recovery after it, and returns an error after 5 failed attempts.
C4_ArmRetries ==
    /\ Len(patt) <= PRE_EXEC_RETRIES
    /\ \A k \in 1..Len(patt) :
           Cardinality({j \in 1..Len(patt[k].calls) : patt[k].calls[j] = "r"}) <= 1
    /\ \A k \in 1..Len(patt) :
           patt[k].outcome = "d" =>
               /\ k = Len(patt)
               /\ pre_result = "Ok"
               /\ o_pc = "exec"
               /\ patt[k].calls[Len(patt[k].calls)] = "r"
    /\ pre_result = "Ok" => Len(patt) > 0 /\ patt[Len(patt)].outcome = "d"
    /\ pre_result = "Err" <=>
           /\ Len(patt) = PRE_EXEC_RETRIES
           /\ \A k \in 1..Len(patt) : patt[k].outcome # "d"
           /\ o_pc # "panic"
    /\ o_pc = "failed" <=> pre_result = "Err"

\* Five failed attempts end in the error.
C4_Witness ==
    /\ o_pc = "failed"
    /\ Len(patt) = PRE_EXEC_RETRIES
    /\ \A k \in 1..Len(patt) : patt[k].outcome = "no_d"

\* C5: after each failed arm attempt with 0-based index i, pre_exec
\* recovers in this order before the next 'r': restart the device only if
\* i >= 2, restart the app, reopen the socket, which starts with a fresh
\* 'ss' or 'se'; the next 'r' goes out on the newly opened session.
C5_RecoveryOrder ==
    /\ \A k \in 1..Len(patt) :
         LET a        == patt[k]
             writes   == IF a.outcome = "write_err" THEN <<>>
                         ELSE (IF trace_native THEN <<"ts">> ELSE <<>>) \o <<"r">>
             recovery == (IF trace_native THEN <<"report_native_crash">> ELSE <<>>)
                         \o (IF k - 1 >= 2 THEN <<"restart_device">> ELSE <<>>)
                         \o <<"restart_app", "init">>
         IN  a.outcome # "d" =>
               /\ \/ a.calls = writes \o recovery
                  \/ /\ o_pc = "panic"
                     /\ k = Len(patt)
                     /\ IsPrefix(a.calls, writes \o recovery)
                     /\ a.calls[Len(a.calls)] \in {"restart_app", "init"}
               /\ k < Len(patt) => patt[k+1].at = 1
    /\ (o_pc \in {"pre", "failed"} /\ pre_i > 0) =>
           /\ sent = <<IF enable_synchronization THEN "ss" ELSE "se">>
           /\ rx = <<>>
           /\ conn_up

\* The fourth attempt succeeds, on the session opened after the device and
\* the app were restarted.
C5_Witness ==
    /\ Len(patt) = 4
    /\ pre_result = "Ok"
    /\ patt[4].at = 1

\* C6: in every socket session (the first and every reopened one) the
\* first bytes the observer sends are the synchronization opcode, sent once
\* and before any 'ts', 'r' or 'd'; it is 'ss' iff the first template's
\* receiver type is Activity and 'se' otherwise.
C6_SyncFirstOnce ==
    /\ Len(sent) >= 1
    /\ sent[1] = (IF receiver_type = "Activity" THEN "ss" ELSE "se")
    /\ \A k \in 2..Len(sent) : sent[k] \in {"ts", "r", "d"}

\* A reopened session of a broadcast target, with an arm sent on it.
C6_Witness ==
    /\ receiver_type = "BroadcastReceiver"
    /\ pre_i > 0
    /\ o_pc = "exec"
    /\ sent = <<"se", "ts", "r">>

\* C7 (as stated): for every index i, overall_coverage[i] never decreases
\* across post_exec calls.
C7_NeverDecreases ==
    [][\A x \in MapIndexes : overall_coverage'[x] >= overall_coverage[x]]_vars

\* C7 (amended): for every index i, once overall_coverage[i] is nonzero it
\* stays nonzero; a collect that reads a full map sets it to buffer[i] when
\* buffer[i] is nonzero and leaves it otherwise; nothing else changes it.
C7_NonzeroStays ==
    [][/\ \A x \in MapIndexes :
              overall_coverage[x] # 0 => overall_coverage'[x] # 0
       /\ IF o_pc = "post" /\ post_read' = "full"
          THEN \A x \in MapIndexes :
                   overall_coverage'[x] =
                       IF buffer'[x] # 0 THEN buffer'[x] ELSE overall_coverage[x]
          ELSE overall_coverage' = overall_coverage]_vars

\* A full collect has left an index nonzero that its own map has at zero.
C7_Witness ==
    /\ post_read = "full"
    /\ \E x \in MapIndexes : buffer[x] = 0 /\ overall_coverage[x] # 0

\* C8: after the first "0: 0" line, a post_exec appends a line to the
\* overall-coverage file if and only if the count of nonzero bytes of
\* overall_coverage is strictly greater than the count in the most recently
\* written line.
C8_AppendIffIncreased ==
    [][(o_pc = "post" /\ o_pc' = "pre") =>
           /\ Len(overall_file') \in {Len(overall_file), Len(overall_file) + 1}
           /\ Len(overall_file') = Len(overall_file) + 1 <=>
                  NonZeroCount(overall_coverage') > overall_file[Len(overall_file)]]_vars

C10_DumpFullyCaptured ==
    (o_pc = "pre" /\ pre_i = 0) => rx = <<>>

----------------------------------------------------------------------------
(* Claims about run_target's provisioning (checked under SpecRunTarget) *)

\* The URIs of an input, each with its slot: 0 for data, the 1-based place
\* in extras for an extra.
UrisOf(input) ==
    {<<0, input.data[k]>> : k \in 1..Len(input.data)}
        \cup {<<p, input.extras[p].value.uri>> :
                 p \in {q \in 1..Len(input.extras) : input.extras[q].value.tag = "URI"}}

UrisWithScheme(input, scheme) == {pair \in UrisOf(input) : pair[2].scheme = scheme}

\* C11: in one run_target call every URI's payload is provisioned before the
\* first `am` command is issued: a Content URI by `content write --uri
\* <identifier>` fed with the content, a File URI by `touch` and then `echo`
\* on the identifier without its 7-character file:// prefix, an Other URI
\* by no command at all.
C11_ProvisionedBeforeDispatch ==
    \A k \in 1..Len(device_cmds) :
        device_cmds[k].kind = "am" =>
            /\ \A pair \in UrisWithScheme(r_input, "Content") :
                  \E j \in 1..(k - 1) :
                     /\ device_cmds[j].command =
                           "content write --uri " \o identifier(pair[2], pair[1])
                     /\ device_cmds[j].stdin = pair[2].content
            /\ \A pair \in UrisWithScheme(r_input, "File") :
                  LET ident == identifier(pair[2], pair[1])
                      path  == SubSeq(ident, 8, Len(ident))
                  IN  /\ SubSeq(ident, 1, 7) = "file://"
                      /\ \E j \in 1..(k - 1), j2 \in 1..(k - 1) :
                            /\ j < j2
                            /\ device_cmds[j].command = "touch " \o path
                            /\ device_cmds[j2].command =
                                  "echo -n -e \"" \o encode_hex(pair[2].content)
                                      \o "\" > " \o path
            /\ k - 1 = Cardinality(UrisWithScheme(r_input, "Content"))
                         + 2 * Cardinality(UrisWithScheme(r_input, "File"))

C11_Witness ==
    /\ r_pc = "am"
    /\ UrisWithScheme(r_input, "Content") # {}
    /\ UrisWithScheme(r_input, "File") # {}
    /\ UrisWithScheme(r_input, "Other") # {}
    /\ Len(device_cmds) = 4

\* the payload of uri is on the device under ident
ProvisionedAs(uri, ident) ==
    CASE uri.scheme = "Content" ->
            \E j \in 1..Len(device_cmds) :
               device_cmds[j].command = "content write --uri " \o ident
      [] uri.scheme = "File" ->
            \E j \in 1..Len(device_cmds) :
               device_cmds[j].command = "touch " \o SubSeq(ident, 8, Len(ident))
      [] OTHER -> TRUE

\* C19: the identifier a URI has in the shell command is the identifier the
\* executor provisions: slot 0 for the data URI, slot p + 1 for the extra at
\* 0-based position p, whatever extras are left out of the command.
C19_SameIdentifier ==
    r_pc = "am" =>
        /\ \A k \in 1..Len(r_input.data) :
              LET ident == identifier(r_input.data[k], 0)
              IN  /\ Contains(shell_command, " -d '" \o ident \o "'")
                  /\ ProvisionedAs(r_input.data[k], ident)
        /\ \A p \in 0..(Len(r_input.extras) - 1) :
              LET extra == r_input.extras[p + 1]
              IN  extra.value.tag = "URI" =>
                    LET ident == identifier(extra.value.uri, p + 1)
                    IN  /\ Contains(shell_command,
                               " --eu '" \o extra.key \o "' $'" \o ident \o "'")
                        /\ ProvisionedAs(extra.value.uri, ident)

C19_Witness ==
    /\ r_pc = "am"
    /\ Len(r_input.extras) = 2
    /\ command_args(r_input.extras[1], 1) = None
    /\ r_input.extras[2].value.tag = "URI"
    /\ r_input.extras[2].value.uri.scheme = "File"
    /\ r_input.data # None

----------------------------------------------------------------------------
(* Claims about the mutators and the serialization (checked under SpecMutate) *)

\* C12: however the mutators are chained, an input has at most 10 extras, and
\* IntentRandomAddExtraMutator on an input with 10 extras returns Skipped
\* and leaves the input as it was.
C12_ExtrasCapped ==
    /\ Len(m_input.extras) <= 10
    /\ (m_mutator = "IntentRandomAddExtraMutator" /\ Len(m_before.extras) = 10)
          => (m_result = "Skipped" /\ m_input = m_before)

C12_Witness ==
    /\ m_mutator = "IntentRandomAddExtraMutator"
    /\ Len(m_before.extras) = 10
    /\ m_result = "Skipped"

\* C13 (as stated): a mutator that returns Mutated has changed the input.
C13_MutatedChanges == m_result = "Mutated" => m_input # m_before

\* C14 (as stated): a mutator that returns Skipped has left the input as it
\* was.
C14_SkippedLeavesInput == m_result = "Skipped" => m_input = m_before

\* C15: no chain of mutators changes receiver_type, component_package,
\* component_class, action or category: they stay those of the seed.
C15_FrameFields ==
    LET seed == get_intent_input_for_index(intent_template, 0)
    IN  /\ m_input.receiver_type = seed.receiver_type
        /\ m_input.component_package = seed.component_package
        /\ m_input.component_class = seed.component_class
        /\ m_input.action = seed.action
        /\ m_input.category = seed.category

C15_Witness ==
    /\ m_chain >= 2
    /\ m_result = "Mutated"
    /\ m_input.flags # 0
    /\ m_input.extras # <<>>

\* C16 (as stated): after any chain of mutators every Boolean extra has a
\* 1-byte buffer, every Int and Float extra a 4-byte buffer and every Long
\* extra an 8-byte buffer.
C16_BufferSizes ==
    \A p \in 1..Len(m_input.extras) :
        LET value == m_input.extras[p].value
        IN  /\ value.tag = "Boolean" => Len(value.buffer) = 1
            /\ value.tag \in {"Int", "Float"} => Len(value.buffer) = 4
            /\ value.tag = "Long" => Len(value.buffer) = 8

\* The two parts of an input's serialization: the command and the payloads.
Serialization(input) == <<ShellCommandOf(input), PayloadsOf(UriWorklist(input))>>

\* The fields the hash is fed from.
HashedFields(input) ==
    <<input.component_package, input.component_class, input.action,
      input.category, input.data, input.mime_type, input.flags, input.extras>>

C18_ComponentNameEmitted ==
    \A p \in 1..Len(m_input.extras) :
        LET extra == m_input.extras[p]
        IN  extra.value.tag = "ComponentName" =>
              /\ command_args(extra, p) =
                    Some(" --ecn '" \o extra.key \o "' $'"
                             \o encode_hex(extra.value.buffer) \o "'")
              /\ Contains(ShellCommandOf(m_input),
                          " --ecn '" \o extra.key \o "' $'")

----------------------------------------------------------------------------
(* Claims about the generator (checked under SpecGenerate) *)

IsInjective(s) == \A a, b \in 1..Len(s) : s[a] = s[b] => a = b

\* C20: a template with actions A and categories C yields exactly
\* |A| * max(1, |C|) seeds; seed k has action A[k mod |A|] and category
\* C[k div max(1, |A|)], the empty string when that is out of range; every
\* pair of an action and a category is yielded exactly once, and with no
\* category every action exactly once with category "".
C20_SeedEnumeration ==
    LET A == templates[1].actions
        C == templates[1].categories
        n == Len(A) * (IF Len(C) >= 1 THEN Len(C) ELSE 1)
        d == IF Len(A) >= 1 THEN Len(A) ELSE 1
        yielded(action, category) ==
            {k \in 1..Len(generated) :
                generated[k].action = action /\ generated[k].category = category}
    IN  /\ Len(generated) <= n
        /\ Len(generated) < n => ENABLED Generate
        /\ Len(generated) = n => ~ENABLED Generate
        /\ \A k \in 0..(Len(generated) - 1) :
              /\ generated[k + 1].action = A[(k % Len(A)) + 1]
              /\ generated[k + 1].category =
                    (IF k \div d < Len(C) THEN C[(k \div d) + 1] ELSE "")
        /\ (Len(generated) = n /\ IsInjective(A) /\ IsInjective(C)) =>
              IF C # <<>>
              THEN \A a \in 1..Len(A), c \in 1..Len(C) :
                      Cardinality(yielded(A[a], C[c])) = 1
              ELSE \A a \in 1..Len(A) : Cardinality(yielded(A[a], "")) = 1

C20_Witness ==
    /\ Len(templates[1].actions) = 2
    /\ Len(templates[1].categories) = 2
    /\ IsInjective(templates[1].actions)
    /\ IsInjective(templates[1].categories)
    /\ Len(generated) = 4

\* ---------------------------------------------------------------------
\* Claims on the observer's error handling
\* ---------------------------------------------------------------------

\* Position of the first occurrence of `call` in `calls`, 0 when absent.
FirstAt(calls, call) ==
    IF \E j \in 1..Len(calls) : calls[j] = call
    THEN CHOOSE j \in 1..Len(calls) :
             calls[j] = call /\ \A m \in 1..(j - 1) : calls[m] # call
    ELSE 0

\* C26 as stated: on every failed arm attempt in pre_exec the observer runs
\* the native-crash report before it restarts the app, whatever the value
\* of trace_native.
C26_AlwaysReports ==
    \A k \in 1..Len(patt) :
        patt[k].outcome # "d" =>
            /\ FirstAt(patt[k].calls, "report_native_crash") > 0
            /\ FirstAt(patt[k].calls, "restart_app") > 0 =>
                   FirstAt(patt[k].calls, "report_native_crash")
                       < FirstAt(patt[k].calls, "restart_app")

\* C26: on a failed arm attempt pre_exec runs the native-crash report
\* exactly when the observer's trace_native is true, once, and then before
\* the device restart and the app restart; with trace_native false the
\* attempt's recovery makes no report at all.
C26_ReportsIffTraceNative ==
    \A k \in 1..Len(patt) :
        LET calls  == patt[k].calls
            report == FirstAt(calls, "report_native_crash")
        IN  /\ patt[k].outcome = "d" => report = 0
            /\ patt[k].outcome # "d" =>
                 /\ report > 0 <=> trace_native
                 /\ Cardinality({j \in 1..Len(calls) :
                                    calls[j] = "report_native_crash"}) <= 1
                 /\ \A j \in 1..Len(calls) :
                        (report > 0 /\ calls[j] \in {"restart_device", "restart_app", "init"})
                            => report < j

\* A failed attempt without native tracing restarted the device and the
\* app and made no report.
C26_Witness ==
    /\ ~trace_native
    /\ Len(patt) >= 3
    /\ patt[3].outcome # "d"
    /\ FirstAt(patt[3].calls, "restart_app") > 0
    /\ FirstAt(patt[3].calls, "report_native_crash") = 0

\* C27 as stated: a fault in an observer step (a socket write or read error
\* while arming or collecting, a failed reconnect during recovery) never
\* ends the process before the five attempts of pre_exec are used up.
C27_FaultsAbsorbed ==
    o_pc = "panic" => Len(patt) = PRE_EXEC_RETRIES


\* ---------------------------------------------------------------------
\* Claims on provisioning failures
\* ---------------------------------------------------------------------

\* C28 as stated: every failure to provision a payload, of a File URI (the
\* touch or the echo fails) and of a Content URI ('content write' exits
\* with failure) alike, is a panic; no am dispatch is issued after a failed
\* provisioning step.
C28_FailurePanics ==
    \A k \in 1..Len(device_cmds) :
        device_cmds[k].exit = "failure" =>
            /\ r_pc = "panic"
            /\ k = Len(device_cmds)

\* ---------------------------------------------------------------------
\* Claims on main (checked under SpecMain)
\* ---------------------------------------------------------------------

\* C21: the program starts neither the re-run nor the fuzz loop and sends
\* no device command unless the first template's receiver type is Activity
\* or BroadcastReceiver.
C21_UnsupportedDoesNothing ==
    templates[1].receiver_type \notin {"Activity", "BroadcastReceiver"} =>
        /\ main_calls = <<>>
        /\ main_pc \in {"start", "returned"}
        /\ ObserverAbsent

\* A Service template: main has returned.
C21_Witness ==
    /\ templates[1].receiver_type = "Service"
    /\ main_pc = "returned"

\* C24: fuzz mode with trace_native = true returns before restarting the
\* app, before connecting the observer and before generating or executing
\* any input.
C24_FuzzWithTraceRefused ==
    (~args.run_corpus /\ args.trace_native) =>
        /\ \A k \in 1..Len(main_calls) :
               main_calls[k] \in {"grant_uri_permissions", "set_debug_app"}
        /\ main_pc \in {"start", "mode", "returned", "panic"}
        /\ ObserverAbsent
        /\ (main_pc = "returned" /\ is_supported(templates)) =>
               main_calls = <<"grant_uri_permissions", "set_debug_app">>

\* Fuzz mode with the flag, on a supported template: main has returned
\* after its two first commands.
C24_Witness ==
    /\ ~args.run_corpus
    /\ args.trace_native
    /\ is_supported(templates)
    /\ main_pc = "returned"

\* C25 as stated: in a run where native tracing was not asked for (the
\* trace_native flag false, in fuzz or in re-run mode) no 'ts' is ever sent.
C25_NoTraceOpcodeWithoutFlag ==
    ~args.trace_native =>
        /\ \A k \in 1..Len(sent) : sent[k] # "ts"
        /\ \A k \in 1..Len(patt) :
               \A j \in 1..Len(patt[k].calls) : patt[k].calls[j] # "ts"

\* ---------------------------------------------------------------------
\* Claims on restart_app (checked under SpecRestartApp)
\* ---------------------------------------------------------------------

\* C22 as stated: restart_app makes at most 5 stop-then-start attempts,
\* restarts the device first on the attempts with 0-based index >= 2,
\* returns at the first attempt whose start_app succeeds, and panics only
\* after all five attempts have failed.
C22_PanicsOnlyAfterFive ==
    /\ Len(ra_att) <= RESTART_RETRIES
    /\ \A k \in 1..Len(ra_att) :
           (ra_att[k].calls[1] = "restart_device") <=> (k - 1 >= 2)
    /\ ra_pc = "returned" <=>
           (Len(ra_att) > 0 /\ ra_att[Len(ra_att)].start = "Ok")
    /\ ra_pc = "panic" =>
           /\ Len(ra_att) = RESTART_RETRIES
           /\ \A k \in 1..Len(ra_att) : ra_att[k].start = "Err"

\* C22: restart_app makes at most 5 attempts, each one restart_device (only
\* for a 0-based index >= 2), then stop_app, then start_app; it returns at
\* the first attempt whose start_app returns Ok; it panics after five
\* attempts whose start_app returned Err, and also at once, in any
\* attempt, when a command of restart_device fails, when stop_app returns
\* Err (its five tries of pm disable / pm enable failed) or when start_app
\* panics.
C22_RestartAppAttempts ==
    /\ Len(ra_att) <= RESTART_RETRIES
    /\ ra_i = Len(ra_att)
    /\ \A k \in 1..Len(ra_att) :
         LET a    == ra_att[k]
             full == (IF k - 1 >= 2 THEN <<"restart_device">> ELSE <<>>)
                     \o <<"stop_app", "start_app">>
         IN  /\ IsPrefix(a.calls, full)
             /\ a.calls # <<>>
             /\ (a.calls[1] = "restart_device") <=> (k - 1 >= 2)
             /\ a.stop.tries <= STOP_RETRIES
             /\ k < Len(ra_att) => (a.calls = full /\ a.start = "Err")
             /\ a.calls # full <=>
                    \/ a.device = "panic"
                    \/ a.stop.result = "Err"
             /\ a.stop.result = "Err" => a.stop.tries = STOP_RETRIES
    /\ ra_pc = "returned" <=>
           (Len(ra_att) > 0 /\ ra_att[Len(ra_att)].start = "Ok")
    /\ ra_pc = "panic" <=>
           /\ Len(ra_att) > 0
           /\ LET a == ra_att[Len(ra_att)]
              IN  \/ a.device = "panic"
                  \/ a.stop.result = "Err"
                  \/ a.start = "panic"
                  \/ Len(ra_att) = RESTART_RETRIES /\ a.start = "Err"

\* The first attempt's stop_app fails after its five tries: restart_app
\* panics without having called start_app once.
C22_Witness ==
    /\ ra_pc = "panic"
    /\ Len(ra_att) = 1
    /\ ra_att[1].calls = <<"stop_app">>
    /\ ra_att[1].stop = [tries |-> STOP_RETRIES, result |-> "Err"]

\* ---------------------------------------------------------------------
\* Claims on start_app (checked under SpecStartApp)
\* ---------------------------------------------------------------------

\* C23 as stated, its second part: if no line arrives for more than 20 s
\* before an idle line is seen, start_app returns failure.
C23_SilenceMeansFailure ==
    (gap_over /\ sa_pc = "returned") => sa_result = "Err"

\* The state part of C23.
C23_PollsAndResults ==
    /\ wd_pc \in {"kill", "done"} <=> wd_saw.kind \in {"none", "stale"}
    /\ logcat_child = "killed" => wd_pc = "done"
    /\ wd_saw.kind = "stale" => wd_saw.age > WATCHDOG_TIMEOUT
    /\ wd_saw.kind = "fresh" => wd_saw.age <= WATCHDOG_TIMEOUT
    /\ wd_saw.kind = "none" => sa_pc \in {"join", "returned"}
    /\ (logcat_child = "running" /\ last_update # None) =>
           last_update[1] <= WATCHDOG_TIMEOUT + WATCHDOG_POLL + MaxOversleep
    /\ sa_result = "Ok" =>
           /\ sa_item.kind = "line"
           /\ Contains(sa_item.text, IdleMarker)
    /\ (sa_result = "Err" /\ logcat_child # "none") =>
           /\ sa_item.kind = "eof"
           /\ logcat_child \in {"killed", "exited"}

\* C23: the watchdog leaves its loop, and then kills logcat, only after a
\* poll that found last_update None (the main thread has signalled) or
\* older than 20 s; a poll that finds it 20 s old or younger never fires,
\* so the watchdog does not fire while items are read less than 20 s
\* apart.  Polls are a sleep of 1 s or more apart: logcat is never left
\* running once last_update is older than 20 s plus one such sleep, and a
\* shorter silence of more than 20 s may pass unnoticed.  start_app
\* returns Ok only after an idle line was read, and Err after logcat was
\* started only when the stream has ended.  After a poll that found
\* last_update too old start_app returns in the end.
C23_WatchdogFiresWhenDue ==
    []C23_PollsAndResults /\ (wd_saw.kind = "stale" ~> sa_pc = "returned")

\* The watchdog found last_update older than 20 s and killed logcat; the
\* main thread met the end of the stream and start_app returned Err.
C23_Witness ==
    /\ wd_saw.kind = "stale"
    /\ logcat_child = "killed"
    /\ sa_pc = "returned"
    /\ sa_result = "Err"
    /\ lines_read > 0

\* The mutex is held only inside the two threads' critical sections; a
\* returned start_app has joined the watchdog; no state before the return
\* is without a next step.
C29_Locks ==
    /\ mutex = "main" <=> sa_pc \in {"update_locked", "signal_locked"}
    /\ mutex = "watchdog" <=> wd_pc = "check"
    /\ wd_pc = "sleep" => mutex # "watchdog"
    /\ sa_pc = "join" => (mutex # "main" /\ last_update = None)
    /\ (sa_pc = "returned" /\ logcat_child # "none") => wd_pc = "done"
    /\ wd_pc = "done" => logcat_child \in {"killed", "exited"}
    /\ (sa_pc = "join" /\ wd_pc # "done") => ENABLED (WatchdogThread \/ Tick)
    /\ sa_pc \notin {"returned", "panic"} => ENABLED NextStartApp

\* A step of the watchdog leaves last_update as it is; its match leaves
\* the loop when it finds None; the step after the loop kills logcat.
C29_Steps ==
    /\ (wd_pc # "absent" /\ wd_pc' # wd_pc) => last_update' = last_update
    /\ (wd_pc = "check" /\ last_update = None /\ wd_pc' # wd_pc) => wd_pc' = "kill"
    /\ (wd_pc = "kill" /\ wd_pc' # wd_pc) =>
           (wd_pc' = "done" /\ logcat_child' # "running")

\* C29: in every interleaving of the main thread and the watchdog thread
\* of start_app the mutex on last_update is never held across a sleep or a
\* join, the watchdog never writes last_update, once the main thread has
\* set None the watchdog leaves its loop at its next poll and kills logcat,
\* the join returns (no deadlock), and start_app never returns after the
\* spawn while the watchdog is still running.
C29_Handshake ==
    /\ []C29_Locks
    /\ [][C29_Steps]_vars
    /\ (sa_pc = "join" ~> sa_pc = "returned")

\* The main thread waits in join with None stored while the watchdog
\* sleeps.
C29_Witness ==
    /\ sa_pc = "join"
    /\ wd_pc = "sleep"
    /\ last_update = None

\* A character of str::trim's whitespace occurs in str.
HasWhitespace(str) == \E w \in Whitespace : Contains(str, w)

\* C30 as stated: start_app returns success only if the resolved main
\* activity contains no whitespace (and the later steps succeeded).
C30_NoWhitespace ==
    sa_result = "Ok" => ~HasWhitespace(main_activity)

\* C30: start_app returns success only if, in this order, the resolved
\* main activity contains no space character, `am start-activity
\* --attach-agent` succeeded, `pidof -s` gave a non-empty pid, and a line
\* with the idle marker was read from the logcat of that pid; an activity
\* with a space in it or an empty pid gives an error before logcat is
\* started.
C30_SuccessOnlyAfterAllSteps ==
    /\ sa_result = "Ok" =>
         /\ ~Contains(main_activity, " ")
         /\ pid # ""
         /\ sa_log = <<ResolveCommand(StartAppName),
                       AmStartCommand(StartAppName, main_activity),
                       PidofCommand(StartAppName),
                       LogcatCommand(pid)>>
         /\ sa_item.kind = "line"
         /\ Contains(sa_item.text, IdleMarker)
    /\ (Contains(main_activity, " ") \/ (Len(sa_log) >= 3 /\ pid = "")) =>
         /\ sa_pc = "returned"
         /\ sa_result = "Err"
         /\ logcat_child = "none"
         /\ \A k \in 1..Len(sa_log) : sa_log[k].kind # "logcat"

\* start_app returned Ok.
C30_Witness ==
    /\ sa_result = "Ok"
    /\ Len(sa_log) = 4

----------------------------------------------------------------------------
(* Claims about stop_app (checked under SpecStopApp) *)

\* The places of the log that hold a command of the kind.
PlacesOf(cmds, kind) == {k \in 1..Len(cmds) : cmds[k].kind = kind}

\* C31: stop_app issues `pm disable` at most 5 times, issues `pm enable`
\* only directly after a successful `pm disable` of the same attempt,
\* returns success at the first attempt in which both succeed and issues no
\* further command afterwards, and returns an error only if no attempt had
\* both succeed.
C31_FirstSuccessfulPairWins ==
    LET disables == PlacesOf(st_cmds, "pm disable")
        enables  == PlacesOf(st_cmds, "pm enable")
        pairs    == {k \in enables : st_cmds[k].exit = "ok"}
    IN  /\ Cardinality(disables) <= STOP_RETRIES
        /\ Cardinality(disables) = st_i
        /\ \A k \in enables :
               /\ k > 1
               /\ st_cmds[k - 1].kind = "pm disable"
               /\ st_cmds[k - 1].exit = "ok"
        /\ \A k \in pairs : k = Len(st_cmds) /\ st_result = "Ok"
        /\ st_result = "Ok" => pairs # {} /\ st_pc = "returned"
        /\ st_result = "Err" =>
               /\ pairs = {}
               /\ Cardinality(disables) = STOP_RETRIES
               /\ st_pc = "returned"
        /\ st_pc = "returned" => ~ENABLED StopAppAttempt

\* The third attempt is the first whose two commands both succeed, after an
\* attempt whose `pm disable` failed and one whose `pm enable` failed.
C31_Witness ==
    /\ st_result = "Ok"
    /\ st_i = 3
    /\ Len(st_cmds) = 5
    /\ st_cmds[1].exit = "failure"
    /\ st_cmds[3].exit = "failure"

----------------------------------------------------------------------------
(* More claims about the observer's maps and its stream (checked under Spec) *)

\* The base observer's own post_exec applied to a bitmap.
Classified(map) == [x \in MapIndexes |-> HitcountClass(map[x])]

\* C32: on a full-length dump, post_exec copies the received buffer into
\* the base bitmap iff use_coverage is true (the base observer then turns
\* every byte of its bitmap into its hit-count class); with use_coverage
\* false the base bitmap is left unchanged by the collect, all zero as the
\* arm left it, while overall_coverage and the overall-coverage file are
\* still updated from the buffer.
C32_CopyIffUseCoverage ==
    [][(o_pc = "post" /\ post_read' = "full") =>
           /\ IF use_coverage
              THEN base_observer' = Classified(buffer')
              ELSE base_observer' = base_observer /\ base_observer' = ZeroMap
           /\ \A x \in MapIndexes :
                  overall_coverage'[x] =
                      IF buffer'[x] # 0 THEN buffer'[x] ELSE overall_coverage[x]
           /\ overall_file' =
                  IF NonZeroCount(overall_coverage') > last_overall_coverage
                  THEN Append(overall_file, NonZeroCount(overall_coverage'))
                  ELSE overall_file]_vars

\* A full dump with covered edges collected with use_coverage = false: the
\* base bitmap is zero, the overall map and the file have the edges.
C32_Witness ==
    /\ ~use_coverage
    /\ post_read = "full"
    /\ buffer # ZeroMap
    /\ base_observer = ZeroMap
    /\ overall_coverage = buffer
    /\ Len(overall_file) = 2
    /\ overall_file[2] = NonZeroCount(buffer)

\* C33: whenever pre_exec returns success the local base bitmap is all
\* zero, so after the following full-length collect with use_coverage true
\* the base bitmap holds only the map of the current execution (the bytes
\* the agent sends in answer to this execution's 'd') and nothing from an
\* earlier execution; overall_coverage is not reset by pre_exec.
\* A byte that is unread on the session when 'd' is written was sent in
\* answer to an earlier opcode; the read of the dump starts with it.
C33_FreshPerInputCoverage ==
    /\ [](pre_result = "Ok" => base_observer = ZeroMap)
    /\ [][/\ o_pc = "pre" => overall_coverage' = overall_coverage
          /\ (o_pc = "post" /\ post_read' = "full" /\ use_coverage) =>
                 /\ rx = <<>>
                 /\ base_observer' = Classified(buffer')]_vars

\* C36: the single byte that pre_exec accepts as the acknowledgement of
\* 'r' is always a byte the agent sent in reply to that 'r': no byte that
\* was already on the session, unread, when the 'r' was written (the rest
\* of a dump whose read fell short) is taken as the acknowledgement.
C36_AckAnswersThisReset ==
    [][(o_pc = "pre" /\ pre_result' = "Ok") => rx = <<>>]_vars

\* C39: the set of indexes at which overall_coverage is nonzero never
\* shrinks, across pre_exec, post_exec and the re-initialisations of the
\* socket: an index that became nonzero stays nonzero, and the count of
\* nonzero bytes never goes down.
C39_CoveredSetGrows ==
    [][/\ {x \in MapIndexes : overall_coverage[x] # 0}
              \subseteq {x \in MapIndexes : overall_coverage'[x] # 0}
       /\ NonZeroCount(overall_coverage') >= NonZeroCount(overall_coverage)]_vars

\* Coverage recorded by an earlier execution is still there after the
\* session was reopened and armed again.
C39_Witness ==
    /\ iter > 0
    /\ overall_coverage # ZeroMap
    /\ pre_i > 0
    /\ pre_result = "Ok"
    /\ sent[Len(sent)] = "r"

----------------------------------------------------------------------------
(* Claims about the flags (checked under SpecMutate) *)

\* Bit b of n.
BitOf(n, b) == (n \div (2 ^ b)) % 2

\* n with its bit b toggled.
Toggled(n, b) == IF BitOf(n, b) = 1 THEN n - 2 ^ b ELSE n + 2 ^ b

\* C34: RandomFlag always returns Mutated and changes exactly one bit among
\* the bit positions 0..7 of flags and no other field; hence no mutator
\* changes bits 8..31 of flags, every input descended from a seed (flags =
\* 0) has flags < 256, and applying RandomFlag twice with the same bit
\* choice restores the original flags.
C34_OneLowBitToggled ==
    /\ [](/\ m_input.flags \in 0..255
          /\ \A bit \in FlagBitChoices :
                 FlipFlag(FlipFlag(m_input, bit), bit) = m_input)
    /\ [][/\ m_mutator' = "IntentRandomFlagMutator" =>
                 /\ m_result' = "Mutated"
                 /\ \E b \in 0..7 : m_input'.flags = Toggled(m_input.flags, b)
                 /\ m_input' = [m_input EXCEPT !.flags = m_input'.flags]
          /\ m_mutator' # "IntentRandomFlagMutator" =>
                 m_input'.flags = m_input.flags
          /\ m_input'.flags \div 256 = m_input.flags \div 256]_vars

\* RandomFlag has run twice with bit 7: the flags are those of the seed
\* again.
C34_Witness ==
    /\ m_chain = 2
    /\ m_mutator = "IntentRandomFlagMutator"
    /\ m_before.flags = 128
    /\ m_input.flags = 0

----------------------------------------------------------------------------
(* Claims about the exit kind (checked under SpecDispatch) *)

\* C37: run_target returns only ExitKind::Ok or ExitKind::Timeout and
\* never ExitKind::Crash, for every input and every device outcome;
\* consequently no execution is ever classified as a crash by an objective
\* that depends on the exit kind.
C37_NeverCrashKind ==
    /\ exit_kind # "Crash"
    /\ ~CrashFeedback(exit_kind)
    /\ d_pc = "returned" => exit_kind \in {"Ok", "Timeout"}

\* A dispatch whose every `am` was killed by a signal has returned: its exit
\* kind is Timeout, and the objective does not take it.
C37_Witness ==
    /\ d_pc = "returned"
    /\ Len(att) = AM_RETRIES
    /\ last.exit = "Signaled"
    /\ ~last.timed_out
    /\ exit_kind = "Timeout"
    /\ ~CrashFeedback(exit_kind)

----------------------------------------------------------------------------
(* Claims about the side-channel targets (checked under SpecRunTarget) *)

\* The target a provisioning command writes: the URI of `content write`,
\* the path of `touch` and of `echo`.
TargetOf(cmd) ==
    CASE cmd.kind = "content" ->
            SubSeq(cmd.command, Len("content write --uri ") + 1, Len(cmd.command))
      [] cmd.kind = "touch" -> SubSeq(cmd.command, Len("touch ") + 1, Len(cmd.command))
      [] OTHER -> ""

\* C38: within one input, the side-channel targets of any two distinct
\* URIs of the same scheme (File or Content) are different paths, the data
\* URI using slot 0 and the extras their distinct 1-based positions; so
\* during one iteration no provisioned payload overwrites another payload
\* of the same input.
C38_DistinctTargets ==
    /\ \A one \in UrisOf(r_input), other \in UrisOf(r_input) :
           (/\ one # other
            /\ one[2].scheme = other[2].scheme
            /\ one[2].scheme \in {"File", "Content"}) =>
               /\ one[1] # other[1]
               /\ identifier(one[2], one[1]) # identifier(other[2], other[1])
    /\ \A j \in 1..Len(device_cmds), k \in 1..Len(device_cmds) :
           (/\ j # k
            /\ device_cmds[j].kind = device_cmds[k].kind
            /\ device_cmds[j].kind \in {"content", "touch"}) =>
               TargetOf(device_cmds[j]) # TargetOf(device_cmds[k])

\* Two File extras with the same suffix and the same content have been
\* provisioned, each under its own path.
C38_Witness ==
    /\ r_pc = "am"
    /\ Len(r_input.extras) = 2
    /\ r_input.extras[1].value.tag = "URI"
    /\ r_input.extras[1].value = r_input.extras[2].value
    /\ r_input.extras[1].value.uri.scheme = "File"
    /\ Cardinality({j \in 1..Len(device_cmds) : device_cmds[j].kind = "touch"}) = 2

----------------------------------------------------------------------------
(* Claims about the receiver type of the inputs (checked under SpecFuzz) *)

\* C40: in fuzz mode no input with receiver_type = Service is ever
\* generated, mutated into, or passed to shell_command, so the 'Unsupported
\* receiver type' panic of shell_command is unreachable: every seed takes
\* its receiver type from a template that passed the directory filter
\* (Activity only) or the support gate, and no mutator changes
\* receiver_type.
C40_NoServiceInput ==
    /\ [](main_pc = "fuzz" =>
            /\ \A k \in 1..Len(templates) : templates[k].receiver_type # "Service"
            /\ \A k \in 1..Len(generated) :
                   /\ generated[k].receiver_type # "Service"
                   /\ generated[k].receiver_type \in
                          {templates[j].receiver_type : j \in 1..Len(templates)}
            /\ StageActive => m_input.receiver_type # "Service"
            /\ r_input.receiver_type # "Service"
            /\ r_pc # "panic")
    /\ [][m_chain' > m_chain =>
              m_input'.receiver_type = m_input.receiver_type]_vars

\* A mutated input of a broadcast target has been handed to the executor.
C40_Witness ==
    /\ main_pc = "fuzz"
    /\ r_pc = "provision"
    /\ m_chain > 0
    /\ m_result = "Mutated"
    /\ r_input = m_input
    /\ r_input.receiver_type = "BroadcastReceiver"
    /\ Contains(shell_command, "am broadcast ")

----------------------------------------------------------------------------
(* Claims about the session across a dispatch (checked under SpecLoop) *)

\* C35: whenever post_exec sends 'd', the socket session it uses was opened
\* after the most recent app restart: if the driver restarts the app (or
\* the device) during the dispatch of an iteration, the observer's session
\* is re-established and re-armed before that iteration's map is collected.
\* A session opened after the restart starts with the synchronization
\* opcode and an 'r' of its own and has the restarted app at its other end;
\* the session that was armed before the dispatch has lost its other end.
C35_SessionFollowsRestart ==
    [][(/\ o_pc = "post"
        /\ sent' = Append(sent, "d")
        /\ DispatchRestarted) => conn_up]_vars

====
